---------------------------- MODULE Spec2Model ----------------------------
(***************************************************************************)
(* Hotel reservation domain layer: the Availability, Reservation and      *)
(* WaitlistEntry aggregates (src/domain/entities/*.py) with the value      *)
(* objects they use (src/domain/value_objects.py).                         *)
(*                                                                         *)
(* Every aggregate method is a pure operator from (aggregate, arguments,   *)
(* clock) to a result record [agg, err, ret]: `agg` is the aggregate after *)
(* the call, `err` the message of the ValueError the method raised (or     *)
(* NoError), `ret` what it returned.  An action applies one operator to    *)
(* the aggregate held in a variable and records the call.                  *)
(*                                                                         *)
(* Time is counted in hours since the start of day 0 (UTC).  A calendar    *)
(* date is a day number.  datetime.utcnow() is `now`; date.today() is the  *)
(* local date, i.e. the day of now + tz for the host's UTC offset tz.      *)
(* Money amounts are counted in hundredths of the currency unit, so that   *)
(* amount * (percentage / 100) is exact on the integers.                   *)
(* Optional[T] is a sequence: << >> for None, <<v>> for a value v.         *)
(***************************************************************************)
EXTENDS Integers, Sequences, FiniteSets, TLC

VARIABLES now, tz, av, av_op, res, res_op, wl, wl_op,
          reservations, availabilities, waitlists, calls, svc_op

vars == <<now, tz, av, av_op, res, res_op, wl, wl_op,
          reservations, availabilities, waitlists, calls, svc_op>>

None == << >>

Some(v) == <<v>>

NoError == "none"

----------------------------------------------------------------------------
(* Bounds of the model *)

MaxTotal == 2

MaxOverbook == 1

MaxCount == 3

MaxVersion == 4

MaxAvailClock == 1

(* the capacity used by the repository's own API test, and the count that  *)
(* overbooks it *)
ExampleTotal == 10

ExampleOverbook == 2

ExampleCount == ExampleTotal + 1

TotalChoices == (0..MaxTotal) \cup {ExampleTotal}

OverbookChoices == (0..MaxOverbook) \cup {ExampleOverbook}

PosCounts == (1..MaxCount) \cup {ExampleCount}

HoursPerDay == 24

----------------------------------------------------------------------------
(* Clock *)

(* datetime.utcnow().date() *)
UtcDate(t) == t \div HoursPerDay

(* date.today(): the local calendar date *)
LocalDate(t, offset) == (t + offset) \div HoursPerDay

----------------------------------------------------------------------------
(* Availability aggregate: src/domain/entities/availability.py *)

MsgInsufficient == "Insufficient availability"

MsgRelease == "Cannot release more than reserved"

MsgBlock == "Cannot block more rooms than total available"

MsgUnblock == "Cannot unblock more than blocked"

MsgCapacity == "reserved_rooms + blocked_rooms exceeds capacity"

(* The error kinds of the specification, by the message the code raises *)
AvErrorKind(msg) ==
    CASE msg = MsgInsufficient -> "CapacityExceeded"
      [] msg = MsgBlock -> "CapacityExceeded"
      [] msg = MsgRelease -> "InvalidRelease"
      [] msg = MsgUnblock -> "InvalidUnblock"
      [] msg = MsgCapacity -> "ValidationError"
      [] OTHER -> NoError

(* validate_capacity runs when reserved_rooms and when blocked_rooms is    *)
(* validated; `values` holds only the fields declared earlier, so          *)
(* overbooking_threshold is never in it (it reads as 0), and the field     *)
(* being validated is not in it either (it reads as 0).                    *)
ValidateCapacity(total, reserved, blocked) ==
    LET max_allowed == total + 0
        atReserved == 0 + 0 > max_allowed
        atBlocked == reserved + 0 > max_allowed
    IN  IF atReserved \/ atBlocked THEN MsgCapacity ELSE NoError

(* AvailabilityService.create_availability: a ledger with nothing reserved *)
(* and nothing blocked, version 1 *)
NewAvailability(room, day, total, overbooking, t) ==
    [room_type_id |-> room,
     availability_date |-> day,
     total_rooms |-> total,
     reserved_rooms |-> 0,
     blocked_rooms |-> 0,
     overbooking_threshold |-> overbooking,
     last_updated |-> t,
     version |-> 1]

available_rooms(a) == a.total_rooms - a.reserved_rooms - a.blocked_rooms

(* check_availability without the overbooking allowance *)
check_availability_NoOverbook(a, count) == available_rooms(a) >= count

check_availability(a, count) ==
    available_rooms(a) >= count
        \/ available_rooms(a) + a.overbooking_threshold >= count

reserve_rooms(a, count, t) ==
    IF ~check_availability(a, count)
    THEN [agg |-> a, err |-> MsgInsufficient]
    ELSE [agg |-> [a EXCEPT !.reserved_rooms = @ + count,
                            !.last_updated = t,
                            !.version = @ + 1],
          err |-> NoError]

(* release_rooms that refuses to release the last reserved rooms *)
release_rooms_StrictGuard(a, count, t) ==
    IF count >= a.reserved_rooms
    THEN [agg |-> a, err |-> MsgRelease]
    ELSE [agg |-> [a EXCEPT !.reserved_rooms = @ - count,
                            !.last_updated = t,
                            !.version = @ + 1],
          err |-> NoError]

release_rooms(a, count, t) ==
    IF count > a.reserved_rooms
    THEN [agg |-> a, err |-> MsgRelease]
    ELSE [agg |-> [a EXCEPT !.reserved_rooms = @ - count,
                            !.last_updated = t,
                            !.version = @ + 1],
          err |-> NoError]

(* block_rooms that does not count as a version *)
block_rooms_Unversioned(a, count, t) ==
    IF a.blocked_rooms + count > a.total_rooms
    THEN [agg |-> a, err |-> MsgBlock]
    ELSE [agg |-> [a EXCEPT !.blocked_rooms = @ + count,
                            !.last_updated = t],
          err |-> NoError]

(* block_rooms that draws on the overbooking allowance *)
block_rooms_Overbook(a, count, t) ==
    IF a.blocked_rooms + count > a.total_rooms + a.overbooking_threshold
    THEN [agg |-> a, err |-> MsgBlock]
    ELSE [agg |-> [a EXCEPT !.blocked_rooms = @ + count,
                            !.last_updated = t,
                            !.version = @ + 1],
          err |-> NoError]

block_rooms(a, count, t) ==
    IF a.blocked_rooms + count > a.total_rooms
    THEN [agg |-> a, err |-> MsgBlock]
    ELSE [agg |-> [a EXCEPT !.blocked_rooms = @ + count,
                            !.last_updated = t,
                            !.version = @ + 1],
          err |-> NoError]

(* unblock_rooms that refreshes last_updated before it validates the count *)
unblock_rooms_TouchFirst(a, count, t) ==
    IF count > a.blocked_rooms
    THEN [agg |-> [a EXCEPT !.last_updated = t], err |-> MsgUnblock]
    ELSE [agg |-> [a EXCEPT !.blocked_rooms = @ - count,
                            !.last_updated = t,
                            !.version = @ + 1],
          err |-> NoError]

unblock_rooms(a, count, t) ==
    IF count > a.blocked_rooms
    THEN [agg |-> a, err |-> MsgUnblock]
    ELSE [agg |-> [a EXCEPT !.blocked_rooms = @ - count,
                            !.last_updated = t,
                            !.version = @ + 1],
          err |-> NoError]

AvCall(name, count, r) ==
    /\ r.agg.version <= MaxVersion
    /\ av' = r.agg
    /\ av_op' = [op |-> name, count |-> count, err |-> r.err]

----------------------------------------------------------------------------
(* Value objects: src/domain/value_objects.py *)

MsgCheckOut == "Check-out must be after check-in"

MsgPast == "Check-in date cannot be in the past"

MsgField == "field constraint violated"

(* DateRange(check_in, check_out): check_in is validated first (not before *)
(* the local date), then check_out against a valid check_in *)
(* a DateRange that accepts a check-out on the check-in date *)
DateRangeError_SameDay(check_in, check_out, t, offset) ==
    IF check_in < LocalDate(t, offset) THEN MsgPast
    ELSE IF check_out < check_in THEN MsgCheckOut
    ELSE NoError

DateRangeError(check_in, check_out, t, offset) ==
    IF check_in < LocalDate(t, offset) THEN MsgPast
    ELSE IF check_out <= check_in THEN MsgCheckOut
    ELSE NoError

DateRange(check_in, check_out) == [check_in |-> check_in, check_out |-> check_out]

nights(dr) == dr.check_out - dr.check_in

(* Money: amount = Field(ge=0) *)
MoneyError(amount) == IF amount >= 0 THEN NoError ELSE MsgField

Money(amount, currency) == [amount |-> amount, currency |-> currency]

MinAdults == 1

MaxAdults == 10

MaxChildren == 10

(* GuestCount: adults = Field(ge=1, le=10), children = Field(ge=0, le=10) *)
GuestCountError(adults, children) ==
    IF adults >= MinAdults /\ adults <= MaxAdults /\ children >= 0 /\ children <= MaxChildren
    THEN NoError ELSE MsgField

GuestCount(adults, children) == [adults |-> adults, children |-> children]

MaxPercentage == 100

(* CancellationPolicy: refund_percentage = Field(ge=0, le=100),            *)
(* deadline_hours = Field(ge=0) *)
PolicyError(pct, deadline) ==
    IF pct >= 0 /\ pct <= MaxPercentage /\ deadline >= 0 THEN NoError ELSE MsgField

CancellationPolicy(name, pct, deadline) ==
    [policy_name |-> name, refund_percentage |-> pct, deadline_hours |-> deadline]

(* The Decimal a refund is computed as, exact: `hundredths` whole          *)
(* hundredths of the currency unit and `rest` hundredths of one more       *)
(* (0..99); nothing is rounded *)
Decimal(hundredths, rest) == [hundredths |-> hundredths, rest |-> rest]

(* amount * (refund_percentage / 100) on Decimals, amount in hundredths    *)
(* and non-negative; the whole hundreds and the rest of the amount are     *)
(* multiplied apart, which keeps every product within the 32-bit integers  *)
Percent(amount, pct) ==
    Decimal((amount \div MaxPercentage) * pct + ((amount % MaxPercentage) * pct) \div MaxPercentage,
            ((amount % MaxPercentage) * pct) % MaxPercentage)

(* calculate_refund with a strict comparison against the deadline *)
calculate_refund_StrictDeadline(policy, total_amount, cancellation_date, check_in_date) ==
    LET hours_until_checkin == (check_in_date - cancellation_date) * HoursPerDay
        refund_amount ==
            IF hours_until_checkin > policy.deadline_hours
            THEN Percent(total_amount.amount, policy.refund_percentage)
            ELSE Decimal(0, 0)
    IN  Money(refund_amount, total_amount.currency)

(* CancellationPolicy.calculate_refund: the two arguments are calendar     *)
(* dates, so the hours until check-in are whole days times 24 *)
calculate_refund(policy, total_amount, cancellation_date, check_in_date) ==
    LET hours_until_checkin == (check_in_date - cancellation_date) * HoursPerDay
        refund_amount ==
            IF hours_until_checkin >= policy.deadline_hours
            THEN Percent(total_amount.amount, policy.refund_percentage)
            ELSE Decimal(0, 0)
    IN  Money(refund_amount, total_amount.currency)

----------------------------------------------------------------------------
(* Reservation aggregate: src/domain/entities/reservation.py *)

PENDING == "PENDING"

CONFIRMED == "CONFIRMED"

CHECKED_IN == "CHECKED_IN"

CHECKED_OUT == "CHECKED_OUT"

CANCELLED == "CANCELLED"

NO_SHOW == "NO_SHOW"

ReservationStatus == {PENDING, CONFIRMED, CHECKED_IN, CHECKED_OUT, CANCELLED, NO_SHOW}

MsgNotModifiable == "Reservation cannot be modified in current state"

MsgConfirm == "Can only confirm PENDING reservations"

MsgPayment == "Payment must be confirmed"

MsgCheckIn == "Can only check in CONFIRMED reservations"

MsgTooEarly == "Cannot check in before check-in date"

MsgCheckOutState == "Can only check out CHECKED_IN reservations"

MsgCancel == "Reservation cannot be cancelled in current state"

MsgNoShow == "Can only mark as no-show for PENDING or CONFIRMED reservations"

MsgMinNights == "Reservation must be at least 1 night"

MsgMaxNights == "Maximum stay is 30 nights"

MsgAdult == "At least 1 adult required"

MsgChildren == "Children count cannot be negative"

MsgAmount == "Total amount must be greater than 0"

(* The error kinds of the specification, by the message the code raises *)
ResErrorKind(msg) ==
    CASE msg \in {MsgConfirm, MsgCheckIn, MsgCheckOutState, MsgCancel, MsgNoShow}
            -> "InvalidTransition"
      [] msg = MsgPayment -> "PaymentRequired"
      [] msg = MsgTooEarly -> "TooEarly"
      [] msg = MsgNotModifiable -> "NotModifiable"
      [] msg \in {MsgMinNights, MsgMaxNights, MsgAdult, MsgChildren, MsgAmount,
                  MsgCheckOut, MsgPast, MsgField} -> "ValidationError"
      [] OTHER -> NoError

MinNights == 1

MaxNights == 30

validate_date_range(v) ==
    IF nights(v) < MinNights THEN MsgMinNights
    ELSE IF nights(v) > MaxNights THEN MsgMaxNights
    ELSE NoError

validate_guest_count(v) ==
    IF v.adults < MinAdults THEN MsgAdult
    ELSE IF v.children < 0 THEN MsgChildren
    ELSE NoError

validate_amount(v) == IF v.amount <= 0 THEN MsgAmount ELSE NoError

(* The validators run when a Reservation is constructed (Reservation.create). *)
(* The class sets no validate_assignment, so they do not run when a method    *)
(* assigns a field.                                                           *)
CreateError(date_range, guest_count, total_amount) ==
    IF validate_date_range(date_range) # NoError THEN validate_date_range(date_range)
    ELSE IF validate_guest_count(guest_count) # NoError THEN validate_guest_count(guest_count)
    ELSE validate_amount(total_amount)

Create(room, date_range, guest_count, total_amount, policy, t) ==
    [confirmation_code |-> "CODE0001",
     guest_id |-> "guest-1",
     room_type_id |-> room,
     date_range |-> date_range,
     guest_count |-> guest_count,
     total_amount |-> total_amount,
     cancellation_policy |-> policy,
     status |-> PENDING,
     booking_source |-> "ONLINE",
     special_requests |-> << >>,
     created_at |-> t,
     modified_at |-> t,
     created_by |-> "SYSTEM",
     version |-> 1]

(* SpecialRequest(request_type, description); request_id is a fresh uuid4  *)
(* and is not represented *)
SpecialRequest(request_type, description, t) ==
    [request_type |-> request_type,
     description |-> description,
     fulfilled |-> FALSE,
     notes |-> None,
     created_at |-> t]

(* SpecialRequest.fulfill(notes) *)
fulfill(sr, notes) == [sr EXCEPT !.fulfilled = TRUE, !.notes = Some(notes)]

is_modifiable(r, t, offset) ==
    /\ r.status \in {PENDING, CONFIRMED}
    /\ r.date_range.check_in >= LocalDate(t, offset) + 1

is_cancellable(r) == r.status \in {PENDING, CONFIRMED}

(* `if new_x:` - a value object is always truthy, a string is truthy when  *)
(* it is not empty, None is falsy *)
TruthyObject(opt) == opt # None

TruthyString(opt) == opt # None /\ opt[1] # ""

modify(r, new_date_range, new_guest_count, new_room_type_id, new_total_amount, t, offset) ==
    IF ~is_modifiable(r, t, offset)
    THEN [agg |-> r, err |-> MsgNotModifiable, ret |-> None]
    ELSE [agg |-> [r EXCEPT
                     !.date_range = IF TruthyObject(new_date_range)
                                    THEN new_date_range[1] ELSE @,
                     !.guest_count = IF TruthyObject(new_guest_count)
                                     THEN new_guest_count[1] ELSE @,
                     !.room_type_id = IF TruthyString(new_room_type_id)
                                      THEN new_room_type_id[1] ELSE @,
                     !.total_amount = IF TruthyObject(new_total_amount)
                                      THEN new_total_amount[1] ELSE @,
                     !.modified_at = t,
                     !.version = @ + 1],
          err |-> NoError, ret |-> None]

(* add_special_request that counts as a version, like the other mutators *)
add_special_request_Versioned(r, request_type, description, t) ==
    [agg |-> [r EXCEPT
                !.special_requests = Append(@, SpecialRequest(request_type, description, t)),
                !.modified_at = t,
                !.version = @ + 1],
     err |-> NoError, ret |-> None]

add_special_request(r, request_type, description, t) ==
    [agg |-> [r EXCEPT
                !.special_requests = Append(@, SpecialRequest(request_type, description, t)),
                !.modified_at = t],
     err |-> NoError, ret |-> None]

(* confirm without the payment test *)
confirm_Unpaid(r, payment_confirmed, t) ==
    IF r.status # PENDING THEN [agg |-> r, err |-> MsgConfirm, ret |-> None]
    ELSE [agg |-> [r EXCEPT !.status = CONFIRMED, !.modified_at = t, !.version = @ + 1],
          err |-> NoError, ret |-> None]

confirm(r, payment_confirmed, t) ==
    IF r.status # PENDING THEN [agg |-> r, err |-> MsgConfirm, ret |-> None]
    ELSE IF ~payment_confirmed THEN [agg |-> r, err |-> MsgPayment, ret |-> None]
    ELSE [agg |-> [r EXCEPT !.status = CONFIRMED, !.modified_at = t, !.version = @ + 1],
          err |-> NoError, ret |-> None]

(* check_in that tests the date but not the status *)
check_in_AnyStatus(r, room_number, t) ==
    IF UtcDate(t) < r.date_range.check_in
    THEN [agg |-> r, err |-> MsgTooEarly, ret |-> None]
    ELSE [agg |-> [r EXCEPT !.status = CHECKED_IN, !.modified_at = t, !.version = @ + 1],
          err |-> NoError, ret |-> None]

(* check_in without the date test *)
check_in_AnyDate(r, room_number, t) ==
    IF r.status # CONFIRMED THEN [agg |-> r, err |-> MsgCheckIn, ret |-> None]
    ELSE [agg |-> [r EXCEPT !.status = CHECKED_IN, !.modified_at = t, !.version = @ + 1],
          err |-> NoError, ret |-> None]

check_in(r, room_number, t) ==
    IF r.status # CONFIRMED THEN [agg |-> r, err |-> MsgCheckIn, ret |-> None]
    ELSE IF UtcDate(t) < r.date_range.check_in
    THEN [agg |-> r, err |-> MsgTooEarly, ret |-> None]
    ELSE [agg |-> [r EXCEPT !.status = CHECKED_IN, !.modified_at = t, !.version = @ + 1],
          err |-> NoError, ret |-> None]

check_out(r, t) ==
    IF r.status # CHECKED_IN THEN [agg |-> r, err |-> MsgCheckOutState, ret |-> None]
    ELSE [agg |-> [r EXCEPT !.status = CHECKED_OUT, !.modified_at = t, !.version = @ + 1],
          err |-> NoError, ret |-> Some(r.total_amount)]

reservation_calculate_refund(r, cancellation_date) ==
    calculate_refund(r.cancellation_policy, r.total_amount, cancellation_date,
                     r.date_range.check_in)

cancel(r, reason, t, offset) ==
    IF ~is_cancellable(r) THEN [agg |-> r, err |-> MsgCancel, ret |-> None]
    ELSE LET refund_amount == reservation_calculate_refund(r, LocalDate(t, offset))
         IN  [agg |-> [r EXCEPT !.status = CANCELLED, !.modified_at = t, !.version = @ + 1],
              err |-> NoError, ret |-> Some(refund_amount)]

(* mark_no_show without its status guard *)
mark_no_show_Unguarded(r, t) ==
    [agg |-> [r EXCEPT !.status = NO_SHOW, !.modified_at = t, !.version = @ + 1],
     err |-> NoError, ret |-> None]

mark_no_show(r, t) ==
    IF r.status \notin {CONFIRMED, PENDING} THEN [agg |-> r, err |-> MsgNoShow, ret |-> None]
    ELSE [agg |-> [r EXCEPT !.status = NO_SHOW, !.modified_at = t, !.version = @ + 1],
          err |-> NoError, ret |-> None]

(* the operations that change the reservation's dates, guests, room,      *)
(* amount or status *)
StateChangingOps == {"modify", "confirm", "check_in", "check_out", "cancel", "mark_no_show"}

(* res_op records the last call and its outcome, and counts the successful *)
(* state-changing calls made on the reservation so far *)
ResCall(name, r) ==
    /\ r.agg.version <= MaxVersion
    /\ res' = r.agg
    /\ res_op' = [op |-> name, err |-> r.err, ret |-> r.ret,
                  changes |-> IF r.err = NoError /\ name \in StateChangingOps
                              THEN res_op.changes + 1 ELSE res_op.changes]


----------------------------------------------------------------------------
(* WaitlistEntry aggregate: src/domain/entities/waitlist.py *)

ACTIVE == "ACTIVE"

CONVERTED == "CONVERTED"

EXPIRED == "EXPIRED"

WL_CANCELLED == "CANCELLED"

WaitlistStatus == {ACTIVE, CONVERTED, EXPIRED, WL_CANCELLED}

LOW == 1

MEDIUM == 2

HIGH == 3

URGENT == 4

Priority == {LOW, MEDIUM, HIGH, URGENT}

MsgConvert == "Can only convert ACTIVE entries"

MsgExpires == "expires_at must be after created_at"

WlErrorKind(msg) ==
    CASE msg = MsgConvert -> "InvalidState"
      [] msg = MsgExpires -> "ValidationError"
      [] OTHER -> NoError

ExpiryDays == 14

NotifyDays == 3

(* timedelta(days=d) in hours *)
Days(d) == d * HoursPerDay

(* (a - b).days: the whole days of a timedelta, rounded towards minus infinity *)
(* (a - b).days with the whole days counted towards zero *)
DaysBetween_TowardZero(a, b) ==
    IF a >= b THEN (a - b) \div HoursPerDay ELSE 0 - ((b - a) \div HoursPerDay)

DaysBetween(a, b) == (a - b) \div HoursPerDay

add_to_waitlist(guest, room, requested_dates, guest_count, priority, t) ==
    [guest_id |-> guest,
     room_type_id |-> room,
     requested_dates |-> requested_dates,
     guest_count |-> guest_count,
     priority |-> priority,
     status |-> ACTIVE,
     created_at |-> t,
     expires_at |-> t + Days(ExpiryDays),
     notified_at |-> None,
     converted_reservation_id |-> None]

(* convert_to_reservation that revives an entry already expired *)
convert_to_reservation_FromExpired(w, reservation_id) ==
    IF w.status \notin {ACTIVE, EXPIRED} THEN [agg |-> w, err |-> MsgConvert]
    ELSE [agg |-> [w EXCEPT !.status = CONVERTED,
                            !.converted_reservation_id = Some(reservation_id)],
          err |-> NoError]

(* convert_to_reservation without its status guard *)
convert_to_reservation_Unguarded(w, reservation_id) ==
    [agg |-> [w EXCEPT !.status = CONVERTED,
                       !.converted_reservation_id = Some(reservation_id)],
     err |-> NoError]

convert_to_reservation(w, reservation_id) ==
    IF w.status # ACTIVE THEN [agg |-> w, err |-> MsgConvert]
    ELSE [agg |-> [w EXCEPT !.status = CONVERTED,
                            !.converted_reservation_id = Some(reservation_id)],
          err |-> NoError]

(* expire without its status guard *)
expire_Unguarded(w) == [agg |-> [w EXCEPT !.status = EXPIRED], err |-> NoError]

expire(w) ==
    [agg |-> IF w.status = ACTIVE THEN [w EXCEPT !.status = EXPIRED] ELSE w,
     err |-> NoError]

(* extend_expiry without its status guard *)
extend_expiry_AnyStatus(w, additional_days) ==
    [agg |-> [w EXCEPT !.expires_at = @ + Days(additional_days)], err |-> NoError]

extend_expiry(w, additional_days) ==
    [agg |-> IF w.status = ACTIVE
             THEN [w EXCEPT !.expires_at = @ + Days(additional_days)] ELSE w,
     err |-> NoError]

(* upgrade_priority with the comparison the other way round *)
upgrade_priority_Lower(w, new_priority) ==
    [agg |-> IF new_priority < w.priority
             THEN [w EXCEPT !.priority = new_priority] ELSE w,
     err |-> NoError]

(* upgrade_priority that accepts any different priority *)
upgrade_priority_Any(w, new_priority) ==
    [agg |-> IF new_priority # w.priority
             THEN [w EXCEPT !.priority = new_priority] ELSE w,
     err |-> NoError]

upgrade_priority(w, new_priority) ==
    [agg |-> IF new_priority > w.priority
             THEN [w EXCEPT !.priority = new_priority] ELSE w,
     err |-> NoError]

mark_notified(w, t) ==
    [agg |-> [w EXCEPT !.notified_at = Some(t)], err |-> NoError]

should_notify_again(w, t) ==
    IF w.notified_at = None THEN TRUE
    ELSE DaysBetween(t, w.notified_at[1]) >= NotifyDays

(* a score whose priority step is smaller than what the two day counts can *)
(* add up to *)
calculate_priority_score_SmallStep(w, t) ==
    LET base == w.priority * 90
        days_waiting == DaysBetween(t, w.created_at)
        days_to_expiry == DaysBetween(w.expires_at, t)
    IN  base + days_waiting * 2 + (ExpiryDays - days_to_expiry) * 5

(* a score that counts the days left to expiry instead of the days used up *)
calculate_priority_score_DaysLeft(w, t) ==
    LET base == w.priority * 100
        days_waiting == DaysBetween(t, w.created_at)
        days_to_expiry == DaysBetween(w.expires_at, t)
    IN  base + days_waiting * 2 + days_to_expiry * 5

calculate_priority_score(w, t) ==
    LET base == w.priority * 100
        days_waiting == DaysBetween(t, w.created_at)
        days_to_expiry == DaysBetween(w.expires_at, t)
    IN  base + days_waiting * 2 + (ExpiryDays - days_to_expiry) * 5

WlCall(name, arg, r) ==
    /\ wl' = r.agg
    /\ wl_op' = [op |-> name, arg |-> arg, err |-> r.err]


----------------------------------------------------------------------------
(* Repositories and application services:                                  *)
(* src/infrastructure/repositories/in_memory_repositories.py and           *)
(* src/application/services.py.  A repository's _storage is a dict, which  *)
(* keeps its keys in insertion order: it is modelled as the sequence of    *)
(* its values.  The repositories' coroutines never suspend, so a service   *)
(* call runs to its end or to its exception in one step.                   *)

(* the key of InMemoryAvailabilityRepository._storage *)
KeyOf(a) == <<a.room_type_id, a.availability_date>>

(* InMemoryAvailabilityRepository.save: _storage[key] = availability; an   *)
(* existing key keeps its place in the dict and gets the new value *)
availability_save(store, a) ==
    IF \E i \in DOMAIN store : KeyOf(store[i]) = KeyOf(a)
    THEN [i \in DOMAIN store |-> IF KeyOf(store[i]) = KeyOf(a) THEN a ELSE store[i]]
    ELSE Append(store, a)

(* InMemoryAvailabilityRepository.find_by_room_type: the stored ledgers of *)
(* the room type whose date lies in [start_date, end_date], in storage     *)
(* order; the result holds the stored objects themselves, given here by    *)
(* their positions *)
find_by_room_type(store, room_type_id, start_date, end_date) ==
    LET InRange(i) == /\ store[i].room_type_id = room_type_id
                      /\ start_date <= store[i].availability_date
                      /\ store[i].availability_date <= end_date
    IN  SelectSeq([i \in 1..Len(store) |-> i], InRange)

MsgNotFound == "Availability not found"

(* InMemoryAvailabilityRepository.update *)
availability_update(store, i, a) ==
    IF \E k \in DOMAIN store : KeyOf(store[k]) = KeyOf(a)
    THEN [store |-> [store EXCEPT ![i] = a], err |-> NoError]
    ELSE [store |-> store, err |-> MsgNotFound]

(* AvailabilityService.create_availability *)
create_availability(store, room_type_id, availability_date, total_rooms, overbooking_threshold, t) ==
    LET err == IF total_rooms < 0 \/ overbooking_threshold < 0 THEN MsgField
               ELSE ValidateCapacity(total_rooms, 0, 0)
        a == NewAvailability(room_type_id, availability_date, total_rooms,
                             overbooking_threshold, t)
    IN  IF err # NoError THEN [store |-> store, err |-> err, ret |-> None]
        ELSE [store |-> availability_save(store, a), err |-> NoError, ret |-> Some(a)]

(* the Availability method a service method calls on each ledger *)
EntityCall(name, a, count, t) ==
    CASE name = "reserve_rooms" -> reserve_rooms(a, count, t)
      [] name = "release_rooms" -> release_rooms(a, count, t)
      [] name = "block_rooms" -> block_rooms(a, count, t)
      [] name = "unblock_rooms" -> unblock_rooms(a, count, t)

RECURSIVE ForEachAvailability(_, _, _, _, _)

(* for av in availabilities: av.<name>(count); await repo.update(av)       *)
(* The method mutates the stored object itself, so what it wrote stays     *)
(* when a later ledger raises.                                             *)
ForEachAvailability(name, store, found, count, t) ==
    IF found = << >> THEN [store |-> store, err |-> NoError, ret |-> Some(TRUE)]
    ELSE LET i == Head(found)
             r == EntityCall(name, store[i], count, t)
             u == availability_update(store, i, r.agg)
         IN  IF r.err # NoError THEN [store |-> store, err |-> r.err, ret |-> None]
             ELSE IF u.err # NoError THEN [store |-> store, err |-> u.err, ret |-> None]
             ELSE ForEachAvailability(name, u.store, Tail(found), count, t)

(* the range operation made all-or-nothing: a failure restores the storage *)
RangeCall_AllOrNothing(name, store, room_type_id, start_date, end_date, count, t) ==
    LET found == find_by_room_type(store, room_type_id, start_date, end_date)
        r == ForEachAvailability(name, store, found, count, t)
    IN  IF found = << >> THEN [store |-> store, err |-> NoError, ret |-> Some(FALSE)]
        ELSE IF r.err # NoError THEN [store |-> store, err |-> r.err, ret |-> None]
        ELSE r

(* the common body of AvailabilityService.reserve_rooms, release_rooms,    *)
(* block_rooms and unblock_rooms *)
RangeCall(name, store, room_type_id, start_date, end_date, count, t) ==
    LET found == find_by_room_type(store, room_type_id, start_date, end_date)
    IN  IF found = << >> THEN [store |-> store, err |-> NoError, ret |-> Some(FALSE)]
        ELSE ForEachAvailability(name, store, found, count, t)

service_reserve_rooms(store, room_type_id, start_date, end_date, count, t) ==
    RangeCall("reserve_rooms", store, room_type_id, start_date, end_date, count, t)

service_release_rooms(store, room_type_id, start_date, end_date, count, t) ==
    RangeCall("release_rooms", store, room_type_id, start_date, end_date, count, t)

service_block_rooms(store, room_type_id, start_date, end_date, count, t) ==
    RangeCall("block_rooms", store, room_type_id, start_date, end_date, count, t)

service_unblock_rooms(store, room_type_id, start_date, end_date, count, t) ==
    RangeCall("unblock_rooms", store, room_type_id, start_date, end_date, count, t)

(* A call of AvailabilityService.reserve_rooms as a coroutine.  The call  *)
(* can be suspended at its awaits only: at find_by_room_type and at each   *)
(* update.  Between two awaits it runs alone; av.reserve_rooms(count) is a *)
(* plain method, so its check and its increment belong to one step.        *)
(* availabilities is the local list: find_by_room_type appends the stored  *)
(* objects themselves, represented by their positions in the storage; i    *)
(* is the place of the loop variable av in it; reserved lists the          *)
(* positions on which av.reserve_rooms returned.                           *)
NewCall(room_type_id, start_date, end_date, count) ==
    [pc |-> "find", room_type_id |-> room_type_id, start_date |-> start_date,
     end_date |-> end_date, count |-> count, availabilities |-> << >>, i |-> 0,
     reserved |-> << >>, err |-> NoError, ret |-> None]

(* the position of the stored ledger with the key of a *)
PositionOf(store, a) == CHOOSE p \in DOMAIN store : KeyOf(store[p]) = KeyOf(a)

(* a repository that hands out copies of the stored ledgers: the call      *)
(* reserves on its copy and update stores the copy *)
reserve_rooms_step_Copies(store, call, t) ==
    IF call.pc = "find"
    THEN LET found == find_by_room_type(store, call.room_type_id, call.start_date,
                                        call.end_date)
         IN  IF found = << >>
             THEN [store |-> store, call |-> [call EXCEPT !.pc = "done", !.ret = Some(FALSE)]]
             ELSE [store |-> store,
                   call |-> [call EXCEPT !.pc = "reserve", !.i = 1,
                                         !.availabilities =
                                            [k \in DOMAIN found |-> store[found[k]]]]]
    ELSE IF call.pc = "reserve"
    THEN LET r == reserve_rooms(call.availabilities[call.i], call.count, t)
         IN  IF r.err # NoError
             THEN [store |-> store, call |-> [call EXCEPT !.pc = "raised", !.err = r.err]]
             ELSE [store |-> store,
                   call |-> [call EXCEPT !.pc = "update",
                                         !.availabilities[call.i] = r.agg,
                                         !.reserved = Append(@, PositionOf(store, r.agg))]]
    ELSE LET a == call.availabilities[call.i]
             u == availability_update(store, PositionOf(store, a), a)
         IN  IF call.i = Len(call.availabilities)
             THEN [store |-> u.store, call |-> [call EXCEPT !.pc = "done", !.ret = Some(TRUE)]]
             ELSE [store |-> u.store, call |-> [call EXCEPT !.pc = "reserve", !.i = @ + 1]]

(* the run of a call from one await to the next.                           *)
(* "find": find_by_room_type returns; an empty list ends the call with     *)
(* False.  "reserve": av.reserve_rooms(count) on the stored object, up to  *)
(* the await of update; a ValueError ends the call.  "update": update      *)
(* stores the object under its key, where it already is, and the loop      *)
(* goes on or the call returns True.                                       *)
reserve_rooms_step(store, call, t) ==
    IF call.pc = "find"
    THEN LET found == find_by_room_type(store, call.room_type_id, call.start_date,
                                        call.end_date)
         IN  IF found = << >>
             THEN [store |-> store, call |-> [call EXCEPT !.pc = "done", !.ret = Some(FALSE)]]
             ELSE [store |-> store,
                   call |-> [call EXCEPT !.pc = "reserve", !.i = 1,
                                         !.availabilities = found]]
    ELSE IF call.pc = "reserve"
    THEN LET p == call.availabilities[call.i]
             r == reserve_rooms(store[p], call.count, t)
         IN  IF r.err # NoError
             THEN [store |-> store, call |-> [call EXCEPT !.pc = "raised", !.err = r.err]]
             ELSE [store |-> [store EXCEPT ![p] = r.agg],
                   call |-> [call EXCEPT !.pc = "update", !.reserved = Append(@, p)]]
    ELSE LET p == call.availabilities[call.i]
             u == availability_update(store, p, store[p])
         IN  IF u.err # NoError
             THEN [store |-> store, call |-> [call EXCEPT !.pc = "raised", !.err = u.err]]
             ELSE IF call.i = Len(call.availabilities)
             THEN [store |-> u.store, call |-> [call EXCEPT !.pc = "done", !.ret = Some(TRUE)]]
             ELSE [store |-> u.store, call |-> [call EXCEPT !.pc = "reserve", !.i = @ + 1]]

(* AvailabilityService.check_availability: False when the repository     *)
(* finds no ledger in the range, else whether every ledger found admits    *)
(* required_count *)
service_check_availability(store, room_type_id, start_date, end_date, required_count) ==
    LET found == find_by_room_type(store, room_type_id, start_date, end_date)
    IN  IF found = << >> THEN FALSE
        ELSE \A k \in DOMAIN found : check_availability(store[found[k]], required_count)

(* InMemoryReservationRepository.save: _storage[reservation_id] = r; the   *)
(* reservation_id of a new Reservation is a fresh uuid4, a new key *)
reservation_save(store, r) == Append(store, r)

(* InMemoryReservationRepository.find_by_confirmation_code: the first      *)
(* stored reservation with the code, or None *)
find_by_confirmation_code(store, code) ==
    LET hits == {i \in DOMAIN store : store[i].confirmation_code = code}
    IN  IF hits = {} THEN None
        ELSE Some(store[CHOOSE i \in hits : \A j \in hits : i <= j])

(* rate_per_night = Decimal("1000000"), in hundredths *)
RatePerNight == 100000000

(* ReservationService._calculate_total_amount *)
calculate_total_amount(check_in_date, check_out_date) == RatePerNight * (check_out_date - check_in_date)

RequestTypes == {"EARLY_CHECKIN", "LATE_CHECKOUT", "HIGH_FLOOR", "LOW_FLOOR", "SMOKING", "NON_SMOKING", "SPECIAL_AMENITIES", "OTHER"}

MsgRequestType == "is not a valid RequestType"

(* dict.get(key, default); a dict is a function on the keys it holds, the  *)
(* empty dict is << >> *)
DictGet(d, key, default) == IF key \in DOMAIN d THEN d[key] ELSE default

RECURSIVE AddSpecialRequests(_, _, _)

(* for req in special_requests: RequestType(req.get("type", "OTHER")),     *)
(* which raises ValueError on a string that is no member, then             *)
(* reservation.add_special_request(req_type, req.get("description", ""))   *)
AddSpecialRequests(reservation, special_requests, t) ==
    IF special_requests = << >> THEN [agg |-> reservation, err |-> NoError]
    ELSE LET req == Head(special_requests)
             req_type == DictGet(req, "type", "OTHER")
         IN  IF req_type \notin RequestTypes
             THEN [agg |-> reservation, err |-> MsgRequestType]
             ELSE AddSpecialRequests(
                      add_special_request(reservation, req_type,
                                          DictGet(req, "description", ""), t).agg,
                      Tail(special_requests), t)

(* ReservationService.create_reservation; special_requests is the list of  *)
(* dicts, code is the string _generate_confirmation_code returned.  A      *)
(* ValueError of the loop over special_requests leaves nothing saved.      *)
create_reservation(store, room_type_id, check_in_date, check_out_date, adults, children, booking_source, special_requests, code, t, offset) ==
    LET date_range == DateRange(check_in_date, check_out_date)
        guest_count == GuestCount(adults, children)
        total_amount == Money(calculate_total_amount(check_in_date, check_out_date), "IDR")
        cancellation_policy == CancellationPolicy("Standard", 80, 24)
        reservation == [Create(room_type_id, date_range, guest_count, total_amount,
                               cancellation_policy, t)
                           EXCEPT !.confirmation_code = code,
                                  !.booking_source = booking_source]
        requested == AddSpecialRequests(reservation, special_requests, t)
        Fail(msg) == [store |-> store, err |-> msg, ret |-> None]
    IN  IF DateRangeError(check_in_date, check_out_date, t, offset) # NoError
        THEN Fail(DateRangeError(check_in_date, check_out_date, t, offset))
        ELSE IF GuestCountError(adults, children) # NoError
        THEN Fail(GuestCountError(adults, children))
        ELSE IF MoneyError(total_amount.amount) # NoError
        THEN Fail(MoneyError(total_amount.amount))
        ELSE IF CreateError(date_range, guest_count, total_amount) # NoError
        THEN Fail(CreateError(date_range, guest_count, total_amount))
        ELSE IF requested.err # NoError
        THEN Fail(requested.err)
        ELSE [store |-> reservation_save(store, requested.agg), err |-> NoError,
              ret |-> Some(requested.agg)]

(* the dict without its i-th item; the later items keep their order *)
RemoveAt(store, i) == SubSeq(store, 1, i - 1) \o SubSeq(store, i + 1, Len(store))

(* InMemoryReservationRepository.delete; no service calls it *)
reservation_delete(store, reservation_id) ==
    IF reservation_id \in DOMAIN store
    THEN [store |-> RemoveAt(store, reservation_id), err |-> NoError, ret |-> Some(TRUE)]
    ELSE [store |-> store, err |-> NoError, ret |-> Some(FALSE)]

(* InMemoryAvailabilityRepository.delete; no service calls it *)
availability_delete(store, room_type_id, availability_date) ==
    LET hits == {i \in DOMAIN store : KeyOf(store[i]) = <<room_type_id, availability_date>>}
    IN  IF hits # {}
        THEN [store |-> RemoveAt(store, CHOOSE i \in hits : TRUE), err |-> NoError,
              ret |-> Some(TRUE)]
        ELSE [store |-> store, err |-> NoError, ret |-> Some(FALSE)]

(* InMemoryReservationRepository.find_by_id; the uuid of a stored         *)
(* reservation is represented by the position the reservation has in the   *)
(* storage: save of a new uuid appends, update overwrites in place, and    *)
(* after a delete the later reservations are known by their new positions; *)
(* a uuid that is not stored is a position outside the storage *)
find_by_id(store, reservation_id) ==
    IF reservation_id \in DOMAIN store THEN Some(store[reservation_id]) ELSE None

MsgStoreNotFound == "Reservation not found"

(* InMemoryReservationRepository.update *)
reservation_update(store, reservation_id, r) ==
    IF reservation_id \in DOMAIN store
    THEN [store |-> [store EXCEPT ![reservation_id] = r], err |-> NoError, ret |-> Some(r)]
    ELSE [store |-> store, err |-> MsgStoreNotFound, ret |-> None]

(* ReservationService.modify_reservation: a new DateRange and a new amount *)
(* are built only when both dates are given (`if new_check_in and          *)
(* new_check_out`, a date being always truthy), a new GuestCount only when *)
(* both counts are given *)
modify_reservation(store, reservation_id, new_check_in, new_check_out, new_adults, new_children, new_room_type_id, t, offset) ==
    LET found == find_by_id(store, reservation_id)
        dates == new_check_in # None /\ new_check_out # None
        guests == new_adults # None /\ new_children # None
        Fail(msg) == [store |-> store, err |-> msg, ret |-> None]
    IN  IF found = None THEN [store |-> store, err |-> NoError, ret |-> None]
        ELSE IF dates /\ DateRangeError(new_check_in[1], new_check_out[1], t, offset) # NoError
        THEN Fail(DateRangeError(new_check_in[1], new_check_out[1], t, offset))
        ELSE IF guests /\ GuestCountError(new_adults[1], new_children[1]) # NoError
        THEN Fail(GuestCountError(new_adults[1], new_children[1]))
        ELSE IF dates /\ MoneyError(calculate_total_amount(new_check_in[1], new_check_out[1])) # NoError
        THEN Fail(MoneyError(calculate_total_amount(new_check_in[1], new_check_out[1])))
        ELSE LET m == modify(found[1],
                             IF dates THEN Some(DateRange(new_check_in[1], new_check_out[1]))
                             ELSE None,
                             IF guests THEN Some(GuestCount(new_adults[1], new_children[1]))
                             ELSE None,
                             new_room_type_id,
                             IF dates
                             THEN Some(Money(calculate_total_amount(new_check_in[1],
                                                                    new_check_out[1]), "IDR"))
                             ELSE None,
                             t, offset)
             IN  IF m.err # NoError THEN Fail(m.err)
                 ELSE reservation_update(store, reservation_id, m.agg)

(* add_special_request that keeps one list of requests for the whole store *)
service_add_special_request_Shared(store, reservation_id, request_type, description, t) ==
    LET found == find_by_id(store, reservation_id)
    IN  IF found = None THEN [store |-> store, err |-> NoError, ret |-> None]
        ELSE IF request_type \notin RequestTypes
        THEN [store |-> store, err |-> MsgRequestType, ret |-> None]
        ELSE LET all == [i \in DOMAIN store |->
                            add_special_request(store[i], request_type, description, t).agg]
             IN  [store |-> [i \in DOMAIN store |->
                               IF i = reservation_id THEN all[i]
                               ELSE [store[i] EXCEPT
                                       !.special_requests = all[i].special_requests]],
                  err |-> NoError, ret |-> Some(all[reservation_id])]

(* ReservationService.add_special_request *)
service_add_special_request(store, reservation_id, request_type, description, t) ==
    LET found == find_by_id(store, reservation_id)
    IN  IF found = None THEN [store |-> store, err |-> NoError, ret |-> None]
        ELSE IF request_type \notin RequestTypes
        THEN [store |-> store, err |-> MsgRequestType, ret |-> None]
        ELSE reservation_update(store, reservation_id,
                                add_special_request(found[1], request_type, description, t).agg)

(* ReservationService.confirm_reservation, check_in_guest,               *)
(* check_out_guest, cancel_reservation and mark_no_show: find_by_id, the   *)
(* reservation's method, update; check_out_guest and cancel_reservation    *)
(* return the amount the method returned *)
ReservationEntityCall(name, r, arg, t, offset) ==
    CASE name = "confirm_reservation" -> confirm(r, arg, t)
      [] name = "check_in_guest" -> check_in(r, arg, t)
      [] name = "check_out_guest" -> check_out(r, t)
      [] name = "cancel_reservation" -> cancel(r, arg, t, offset)
      [] name = "mark_no_show" -> mark_no_show(r, t)

ReservationCall(name, store, reservation_id, arg, t, offset) ==
    LET found == find_by_id(store, reservation_id)
    IN  IF found = None THEN [store |-> store, err |-> NoError, ret |-> None]
        ELSE LET m == ReservationEntityCall(name, found[1], arg, t, offset)
                 u == reservation_update(store, reservation_id, m.agg)
             IN  IF m.err # NoError THEN [store |-> store, err |-> m.err, ret |-> None]
                 ELSE IF name \in {"check_out_guest", "cancel_reservation"}
                 THEN [store |-> u.store, err |-> u.err, ret |-> m.ret]
                 ELSE u

(* the three repositories main.py constructs and hands to                  *)
(* ReservationService *)
Repositories(r, a, w) == [reservations |-> r, availabilities |-> a, waitlists |-> w]

(* a ReservationService method, by name, on its argument list *)
ReservationMethod(name, store, args, t, offset) ==
    CASE name = "create_reservation" ->
            create_reservation(store, args[1], args[2], args[3], args[4], args[5], args[6],
                               args[7], args[8], t, offset)
      [] name = "modify_reservation" ->
            modify_reservation(store, args[1], args[2], args[3], args[4], args[5], args[6],
                               t, offset)
      [] name = "add_special_request" ->
            service_add_special_request(store, args[1], args[2], args[3], t)
      [] OTHER -> ReservationCall(name, store, args[1], args[2], t, offset)

(* a ReservationService that books the rooms of a stay it creates *)
reservation_service_Booking(name, repos, args, t, offset) ==
    LET r == ReservationMethod(name, repos.reservations, args, t, offset)
        booked == service_reserve_rooms(repos.availabilities, args[1], args[2], args[3] - 1,
                                        1, t)
    IN  [repos |-> [repos EXCEPT !.reservations = r.store,
                                 !.availabilities =
                                    IF name = "create_reservation" /\ r.err = NoError
                                    THEN booked.store ELSE @],
         err |-> r.err, ret |-> r.ret]

(* a call of a ReservationService method: every method reads and writes    *)
(* self.reservation_repo only; self.availability_repo and                  *)
(* self.waitlist_repo are assigned in __init__ and never used *)
reservation_service(name, repos, args, t, offset) ==
    LET r == ReservationMethod(name, repos.reservations, args, t, offset)
    IN  [repos |-> [repos EXCEPT !.reservations = r.store], err |-> r.err, ret |-> r.ret]

(* InMemoryWaitlistRepository: the uuid of a stored entry is represented  *)
(* by its position in the storage; the lists the repository returns hold   *)
(* the stored objects themselves, given here by their positions, in        *)
(* storage order *)
waitlist_save(store, w) == Append(store, w)

(* InMemoryWaitlistRepository.delete; no service calls it *)
waitlist_delete(store, waitlist_id) ==
    IF waitlist_id \in DOMAIN store
    THEN [store |-> RemoveAt(store, waitlist_id), err |-> NoError, ret |-> Some(TRUE)]
    ELSE [store |-> store, err |-> NoError, ret |-> Some(FALSE)]

waitlist_find_by_id(store, waitlist_id) ==
    IF waitlist_id \in DOMAIN store THEN Some(store[waitlist_id]) ELSE None

MsgWaitlistNotFound == "Waitlist entry not found"

waitlist_update(store, waitlist_id, w) ==
    IF waitlist_id \in DOMAIN store
    THEN [store |-> [store EXCEPT ![waitlist_id] = w], err |-> NoError,
          ret |-> Some(waitlist_id)]
    ELSE [store |-> store, err |-> MsgWaitlistNotFound, ret |-> None]

RECURSIVE PositionsWhere(_, _, _)
PositionsWhere(store, Test(_), i) ==
    IF i > Len(store) THEN << >>
    ELSE IF Test(store[i]) THEN <<i>> \o PositionsWhere(store, Test, i + 1)
    ELSE PositionsWhere(store, Test, i + 1)

waitlist_find_by_room_type(store, room_type_id) ==
    LET Test(w) == w.room_type_id = room_type_id
    IN  PositionsWhere(store, Test, 1)

find_active_entries(store) ==
    LET Test(w) == w.status = ACTIVE
    IN  PositionsWhere(store, Test, 1)

(* WaitlistService.add_to_waitlist *)
service_add_to_waitlist(store, guest_id, room_type_id, requested_dates, guest_count, priority, t) ==
    [store |-> waitlist_save(store, add_to_waitlist(guest_id, room_type_id, requested_dates,
                                                    guest_count, priority, t)),
     err |-> NoError, ret |-> Some(Len(store) + 1)]

(* sorted(entries, key=score, reverse=True): a stable sort, so entries     *)
(* with equal scores keep the order they came in *)
RECURSIVE InsertByScore(_, _, _, _)
InsertByScore(sorted, i, store, t) ==
    IF sorted = << >> THEN <<i>>
    ELSE IF calculate_priority_score(store[Head(sorted)], t)
                >= calculate_priority_score(store[i], t)
    THEN <<Head(sorted)>> \o InsertByScore(Tail(sorted), i, store, t)
    ELSE <<i>> \o sorted

RECURSIVE SortedByScore(_, _, _)
SortedByScore(entries, store, t) ==
    IF entries = << >> THEN << >>
    ELSE InsertByScore(SortedByScore(SubSeq(entries, 1, Len(entries) - 1), store, t),
                       entries[Len(entries)], store, t)

(* get_room_waitlist that leaves the entries in storage order *)
get_room_waitlist_Unsorted(store, room_type_id, t) ==
    waitlist_find_by_room_type(store, room_type_id)

(* WaitlistService.get_room_waitlist *)
get_room_waitlist(store, room_type_id, t) ==
    SortedByScore(waitlist_find_by_room_type(store, room_type_id), store, t)

(* WaitlistService.get_active_waitlist *)
get_active_waitlist(store) == find_active_entries(store)

(* get_entries_to_notify that leaves out the entries whose expires_at has  *)
(* passed *)
get_entries_to_notify_Unexpired(store, t) ==
    LET Test(w) == w.status = ACTIVE /\ w.expires_at >= t /\ should_notify_again(w, t)
    IN  PositionsWhere(store, Test, 1)

(* get_entries_to_notify that does not look at the status *)
get_entries_to_notify_AnyStatus(store, t) ==
    LET Test(w) == should_notify_again(w, t)
    IN  PositionsWhere(store, Test, 1)

(* WaitlistService.get_entries_to_notify *)
get_entries_to_notify(store, t) ==
    LET Test(w) == w.status = ACTIVE /\ should_notify_again(w, t)
    IN  PositionsWhere(store, Test, 1)

(* WaitlistService.convert_to_reservation, expire_entry, extend_expiry,    *)
(* upgrade_priority and mark_notified: find_by_id, the entry's method,     *)
(* update *)
WaitlistEntityCall(name, w, arg, t) ==
    CASE name = "convert_to_reservation" -> convert_to_reservation(w, arg)
      [] name = "expire_entry" -> expire(w)
      [] name = "extend_expiry" -> extend_expiry(w, arg)
      [] name = "upgrade_priority" -> upgrade_priority(w, arg)
      [] name = "mark_notified" -> mark_notified(w, t)

WaitlistCall(name, store, waitlist_id, arg, t) ==
    LET found == waitlist_find_by_id(store, waitlist_id)
    IN  IF found = None THEN [store |-> store, err |-> NoError, ret |-> None]
        ELSE LET r == WaitlistEntityCall(name, found[1], arg, t)
             IN  IF r.err # NoError THEN [store |-> store, err |-> r.err, ret |-> None]
                 ELSE waitlist_update(store, waitlist_id, r.agg)

----------------------------------------------------------------------------
(* HTTP layer: src/main.py and src/api/dependencies.py.  A bearer token is *)
(* given by what jwt.decode makes of it: no Authorization header at all, a *)
(* string that does not decode, or a signed payload with or without a      *)
(* "sub" claim.                                                            *)

NoToken == "no Authorization header"

BadToken == "not.a.jwt"

TokenWithoutSub == "jwt{}"

TokenOfStranger == "jwt{sub: ghost}"

TokenOfAdmin == "jwt{sub: admin}"

(* fake_users_db *)
FakeUsers == {"admin"}

(* payload.get("sub") of the decoded token; None when there is none *)
TokenSub(token) ==
    CASE token = TokenOfAdmin -> Some("admin")
      [] token = TokenOfStranger -> Some("ghost")
      [] OTHER -> None

MsgCredentials == "Could not validate credentials"

MsgNotAuthenticated == "Not authenticated"

(* get_current_user: the status it answers with and the user it returns *)
get_current_user(token) ==
    IF token = NoToken THEN [status |-> 401, detail |-> MsgNotAuthenticated, user |-> None]
    ELSE IF token = BadToken \/ TokenSub(token) = None
    THEN [status |-> 401, detail |-> MsgCredentials, user |-> None]
    ELSE IF TokenSub(token)[1] \notin FakeUsers
    THEN [status |-> 401, detail |-> MsgCredentials, user |-> None]
    ELSE [status |-> 200, detail |-> NoError, user |-> TokenSub(token)]

(* get_current_active_user; no user of fake_users_db is disabled *)
get_current_active_user(token) == get_current_user(token)

BookingSources == {"ONLINE", "PHONE", "WALK_IN", "PARTNER"}

MsgBookingSource == "is not a valid BookingSource"

(* CreateReservationRequest: adults = Field(ge=1, le=10), children =       *)
(* Field(ge=0, le=10), and every item of special_requests is a             *)
(* SpecialRequestRequest, which requires both type and description; a body *)
(* that breaks them is answered 422 before the endpoint runs *)
CreateReservationRequestError(adults, children, special_requests) ==
    IF /\ adults >= MinAdults /\ adults <= MaxAdults /\ children >= 0 /\ children <= MaxChildren
       /\ \A k \in DOMAIN special_requests :
             {"type", "description"} \subseteq DOMAIN special_requests[k]
    THEN NoError ELSE MsgField

(* _reservation_to_response: the value objects are flattened; the uuids    *)
(* of the reservation and of its requests are not represented *)
reservation_to_response(r) ==
    [confirmation_code |-> r.confirmation_code,
     guest_id |-> r.guest_id,
     room_type_id |-> r.room_type_id,
     check_in |-> r.date_range.check_in,
     check_out |-> r.date_range.check_out,
     adults |-> r.guest_count.adults,
     children |-> r.guest_count.children,
     total_amount |-> r.total_amount.amount,
     currency |-> r.total_amount.currency,
     status |-> r.status,
     booking_source |-> r.booking_source,
     special_requests |-> r.special_requests,
     created_at |-> r.created_at,
     modified_at |-> r.modified_at,
     created_by |-> r.created_by,
     version |-> r.version]

(* POST /api/reservations (main.py create_reservation): its only           *)
(* dependency is get_reservation_service, so the token is never read.      *)
(* The body is validated first, then BookingSource(request.booking_source) *)
(* and the service run inside the try: a ValueError is answered 400.       *)
post_reservations(store, token, room_type_id, check_in_date, check_out_date, adults, children, booking_source, special_requests, code, t, offset) ==
    LET r == create_reservation(store, room_type_id, check_in_date, check_out_date,
                                adults, children, booking_source, special_requests,
                                code, t, offset)
        Refuse(status, msg) == [store |-> store, status |-> status, detail |-> msg,
                                body |-> None]
    IN  IF CreateReservationRequestError(adults, children, special_requests) # NoError
        THEN Refuse(422, CreateReservationRequestError(adults, children, special_requests))
        ELSE IF booking_source \notin BookingSources
        THEN Refuse(400, MsgBookingSource)
        ELSE IF r.err # NoError THEN Refuse(400, r.err)
        ELSE [store |-> r.store, status |-> 201, detail |-> NoError,
              body |-> Some(reservation_to_response(r.ret[1]))]

(* GET /api/reservations (main.py get_all_reservations): find_all *)
get_reservations(store, token) ==
    [status |-> 200, body |-> [i \in DOMAIN store |-> reservation_to_response(store[i])]]

(* The GET routes under /api/waitlist, in the order main.py registers     *)
(* them; a path is given by its segments after /api/waitlist, the empty    *)
(* segment "" standing where it ends in a slash.  The router serves a      *)
(* request by the first route whose pattern matches the whole path, a      *)
(* {parameter} matching any one segment that is not empty; the parameter is *)
(* converted to its declared type afterwards, and a segment that is no     *)
(* UUID where one is declared is answered 422.                             *)
WaitlistGetRoutes ==
    <<[path |-> <<"{waitlist_id}">>, endpoint |-> "get_waitlist_entry"],
      [path |-> <<"guest", "{guest_id}">>, endpoint |-> "get_guest_waitlist"],
      [path |-> <<"room", "{room_type_id}">>, endpoint |-> "get_room_waitlist"],
      [path |-> <<"active">>, endpoint |-> "get_active_waitlist"],
      [path |-> <<"notify", "pending">>, endpoint |-> "get_waitlist_entries_to_notify"]>>

(* the POST routes under /api/waitlist, in the order main.py registers     *)
(* them: a GET on a path that only these match is answered 405 *)
WaitlistPostRoutes ==
    <<[path |-> << >>, endpoint |-> "add_to_waitlist"],
      [path |-> <<"{waitlist_id}", "convert">>, endpoint |-> "convert_waitlist_to_reservation"],
      [path |-> <<"{waitlist_id}", "expire">>, endpoint |-> "expire_waitlist_entry"],
      [path |-> <<"{waitlist_id}", "extend">>, endpoint |-> "extend_waitlist_expiry"],
      [path |-> <<"{waitlist_id}", "upgrade-priority">>, endpoint |-> "upgrade_waitlist_priority"],
      [path |-> <<"{waitlist_id}", "notify">>, endpoint |-> "mark_waitlist_notified"]>>

IsParameter(segment) == segment \in {"{waitlist_id}", "{guest_id}", "{room_type_id}"}

(* a {parameter} is the pattern [^/]+: it matches any segment but the      *)
(* empty one, which a path holds where two slashes meet or where it ends   *)
(* in a slash *)
RouteMatches(route, path) ==
    /\ Len(route.path) = Len(path)
    /\ \A k \in DOMAIN path :
          \/ IsParameter(route.path[k]) /\ path[k] # ""
          \/ route.path[k] = path[k]

(* the endpoint of the first matching route, or None *)
RouteOf(routes, path) ==
    LET hits == {k \in DOMAIN routes : RouteMatches(routes[k], path)}
    IN  IF hits = {} THEN None
        ELSE Some(routes[CHOOSE k \in hits : \A j \in hits : k <= j].endpoint)

(* the strings that are UUIDs: those of the stored entries, by position,   *)
(* and the guest's *)
WaitlistUuids == <<"00000000-0000-0000-0000-000000000001", "00000000-0000-0000-0000-000000000002">>

GuestUuid == "guest-1"

IsUuid(segment) == segment = GuestUuid \/ \E k \in DOMAIN WaitlistUuids : WaitlistUuids[k] = segment

PositionOfUuid(segment) ==
    IF \E k \in DOMAIN WaitlistUuids : WaitlistUuids[k] = segment
    THEN CHOOSE k \in DOMAIN WaitlistUuids : WaitlistUuids[k] = segment
    ELSE 0

waitlist_find_by_guest_id(store, guest_id) ==
    LET Test(w) == w.guest_id = guest_id
    IN  PositionsWhere(store, Test, 1)

(* GET /api/waitlist/<path>: the answer's status and the stored entries it *)
(* shows, by position.  A path no GET route matches is answered 405 when a *)
(* route of another method matches it.  A path no route matches is tried   *)
(* again with its trailing slashes stripped, or with one added when it has *)
(* none (redirect_slashes): when any route matches that path the answer is *)
(* the redirect 307 to it, and 404 otherwise. *)
get_waitlist(store, path, t) ==
    LET route == RouteOf(WaitlistGetRoutes, path)
        kept == {k \in DOMAIN path : path[k] # ""}
        stripped == SubSeq(path, 1, IF kept = {} THEN 0
                                    ELSE CHOOSE k \in kept : \A j \in kept : j <= k)
        redirect_path == IF path # << >> /\ path[Len(path)] = ""
                         THEN stripped ELSE Append(path, "")
    IN  IF route = None
        THEN IF RouteOf(WaitlistPostRoutes, path) # None
             THEN [status |-> 405, body |-> << >>]
             ELSE IF \/ RouteOf(WaitlistGetRoutes, redirect_path) # None
                     \/ RouteOf(WaitlistPostRoutes, redirect_path) # None
             THEN [status |-> 307, body |-> << >>]
             ELSE [status |-> 404, body |-> << >>]
        ELSE IF route[1] = "get_waitlist_entry"
        THEN IF ~IsUuid(path[1]) THEN [status |-> 422, body |-> << >>]
             ELSE IF waitlist_find_by_id(store, PositionOfUuid(path[1])) = None
             THEN [status |-> 404, body |-> << >>]
             ELSE [status |-> 200, body |-> <<PositionOfUuid(path[1])>>]
        ELSE IF route[1] = "get_guest_waitlist"
        THEN IF ~IsUuid(path[2]) THEN [status |-> 422, body |-> << >>]
             ELSE [status |-> 200, body |-> waitlist_find_by_guest_id(store, path[2])]
        ELSE IF route[1] = "get_room_waitlist"
        THEN [status |-> 200, body |-> get_room_waitlist(store, path[2], t)]
        ELSE IF route[1] = "get_active_waitlist"
        THEN [status |-> 200, body |-> get_active_waitlist(store)]
        ELSE [status |-> 200, body |-> get_entries_to_notify(store, t)]

----------------------------------------------------------------------------
(* Inputs of the model *)

MaxDay == 1

MaxRequests == 1

MaxExtraDays == 2

HourChoices == {0, 1, 23}

(* the sampled instants of the reservation clock: the start of each day,   *)
(* and for the refund rule some hours within each day *)
DayInstants == {d * HoursPerDay : d \in 0..MaxDay}

HourInstants == {d * HoursPerDay + h : d \in 0..MaxDay, h \in HourChoices}

TzChoices == {0, 7}

(* UTC offsets of hosts west of, at and east of Greenwich *)
CheckInTzChoices == {-5, 0, 7}

CheckInDays == {0, 1, 2}

NightChoices == {MinNights, MaxNights, MaxNights + 1}

RoomChoices == {"DELUXE_001", "SUITE_001"}

GuestChoices == {GuestCount(2, 1)}

AmountChoices == {0, 100, 300}

(* "Standard" is the policy ReservationService.create_reservation uses *)
PolicyChoices == {CancellationPolicy("Standard", 80, 24),
                  CancellationPolicy("Strict", 50, 36)}

RequestTypeChoices == {"OTHER"}

(* the DateRange objects that can be constructed at instant t *)
DateRangesAt(t, offset) ==
    {dr \in {DateRange(ci, ci + n) : ci \in CheckInDays, n \in NightChoices} :
        DateRangeError(dr.check_in, dr.check_out, t, offset) = NoError}

(* the totals refunds are computed of: some give a refund that is no      *)
(* whole number of hundredths *)
RefundMoneyChoices == {Money(a, "IDR") : a \in {0, 1, 100, 101, 300}}

MoneyChoices == {Money(a, "IDR") : a \in {x \in AmountChoices : MoneyError(x) = NoError}}

(* the argument lists modify is called with: nothing, one field, or all    *)
(* four fields *)
ModifyArgs(t, offset) ==
    {<<None, None, None, None>>}
        \cup {<<Some(dr), None, None, None>> : dr \in DateRangesAt(t, offset)}
        \cup {<<None, Some(gc), None, None>> : gc \in GuestChoices}
        \cup {<<None, None, Some(rt), None>> : rt \in {"SUITE_001", ""}}
        \cup {<<None, None, None, Some(ta)>> : ta \in MoneyChoices}
        \cup {<<Some(dr), Some(GuestCount(2, 1)), Some("SUITE_001"), Some(Money(300, "IDR"))>> :
                dr \in DateRangesAt(t, offset)}

(* the sampled instants of the waitlist clock *)
WaitDays == {0, 1, NotifyDays, ExpiryDays, ExpiryDays + 1}

WaitInstants == {d * HoursPerDay + h : d \in WaitDays, h \in {0, 23}}

ExtendChoices == 1..MaxExtraDays

(* additional_days is an int, of either sign *)
IntExtendChoices == {-15, -14, -1, 0, 1}

ReservationIds == {"res-1", "res-2"}

MaxReservations == 2

MaxEdits == 2

MaxEntries == 2

MaxLedgerChanges == 3

(* the arguments of the service calls *)
ServiceCheckIns == {0, 1}

ServiceCheckOuts == {0, 1, 2}

ServiceAdults == {0, 1}

(* two of the 36^8 strings random.choices can return *)
CodeChoices == {"AAAAAAAA", "AAAAAAAB"}

(* counts as the entity's methods take them: any int *)
IntCounts == {-2, -1, 0, 1, 2}

TokenChoices == {NoToken, BadToken, TokenWithoutSub, TokenOfStranger, TokenOfAdmin}

(* the bodies PUT /api/reservations/{id} is sent: empty, a new check_out,  *)
(* both dates, or a new number of adults; <<check_in, check_out, adults>> *)
ModifyRequests ==
    {<<None, None, None>>, <<None, Some(3), None>>, <<Some(1), Some(3), None>>,
     <<None, None, Some(3)>>}

ServiceRequestTypes == {"OTHER", "PILLOW"}

(* the special_requests create_reservation is given: none, one, one of no  *)
(* RequestType, and two of which the second is an empty dict *)
ServiceSpecialRequests ==
    {<< >>,
     <<[type |-> "OTHER", description |-> "extra pillows"]>>,
     <<[type |-> "PILLOW", description |-> "x"]>>,
     <<[type |-> "HIGH_FLOOR", description |-> "a"], << >>>>}

(* the adults, booking_source and special_requests of the bodies POST      *)
(* /api/reservations is sent; some items lack a field or both *)
ApiAdults == {0, 2}

ApiBookingSources == {"ONLINE", "AGENT"}

ApiSpecialRequests ==
    {<< >>, <<[type |-> "EARLY_CHECKIN", description |-> "early check-in at 2pm"]>>,
     <<<< >>>>, <<[type |-> "HIGH_FLOOR"]>>, <<[description |-> "x"]>>,
     <<[type |-> "OTHER", description |-> "a"], [type |-> "HIGH_FLOOR"]>>}

WaitServiceInstants == {0, Days(NotifyDays), Days(ExpiryDays), Days(ExpiryDays) + 23}

WaitServicePriorities == {LOW, MEDIUM}

WaitlistPaths ==
    {<<"active">>, <<WaitlistUuids[1]>>, <<WaitlistUuids[2]>>, <<"guest", GuestUuid>>,
     <<"guest", "nobody">>, <<"room", "DELUXE_001">>, <<"notify", "pending">>, << >>,
     <<WaitlistUuids[1], "notify">>, <<"active", "upgrade-priority">>, <<"notify", "notify">>,
     <<WaitlistUuids[1], "pending">>, <<"guest", GuestUuid, "convert">>,
     <<"">>, <<"active", "">>, <<"room", "">>, <<"", "convert">>, <<WaitlistUuids[1], "notify", "">>,
     <<"room", "DELUXE_001", "", "">>}

ServiceDays == {0, 1}

ServiceTotals == {1, 2}

ServiceCounts == {1, 2}

Absent == "absent"

NoAvailability == NewAvailability("", 0, 0, 0, 0)

NoReservation ==
    Create("", DateRange(0, 1), GuestCount(1, 0), Money(100, "IDR"),
           CancellationPolicy("Standard", 80, 24), 0)

NoWaitlistEntry == add_to_waitlist("", "", DateRange(0, 1), GuestCount(1, 0), LOW, 0)

NoAv == av = NoAvailability /\ av_op = [op |-> Absent, count |-> 0, err |-> NoError]

NoRes == res = NoReservation /\ res_op = [op |-> Absent, err |-> NoError, ret |-> None, changes |-> 0]

NoWl == wl = NoWaitlistEntry /\ wl_op = [op |-> Absent, arg |-> "", err |-> NoError]

(* the repositories of a process that has served no request *)
NoSvc ==
    /\ reservations = << >>
    /\ availabilities = << >>
    /\ waitlists = << >>
    /\ calls = << >>
    /\ svc_op = [op |-> Absent, args |-> << >>, err |-> NoError, ret |-> None]

----------------------------------------------------------------------------
(* Availability: one ledger, created by create_availability, then any      *)
(* sequence of the four mutators with counts >= 1 *)

InitAvail ==
    /\ now = 0
    /\ tz = 0
    /\ \E total \in TotalChoices, overbooking \in OverbookChoices :
          /\ ValidateCapacity(total, 0, 0) = NoError
          /\ av = NewAvailability("DELUXE_001", 0, total, overbooking, 0)
    /\ av_op = [op |-> "create_availability", count |-> 0, err |-> NoError]
    /\ NoRes
    /\ NoWl
    /\ NoSvc

AvReserveRooms ==
    /\ av_op.op # Absent
    /\ \E c \in PosCounts : AvCall("reserve_rooms", c, reserve_rooms(av, c, now))
    /\ UNCHANGED <<now, tz, res, res_op, wl, wl_op, reservations, availabilities, svc_op, waitlists, calls>>

AvReleaseRooms ==
    /\ av_op.op # Absent
    /\ \E c \in PosCounts : AvCall("release_rooms", c, release_rooms(av, c, now))
    /\ UNCHANGED <<now, tz, res, res_op, wl, wl_op, reservations, availabilities, svc_op, waitlists, calls>>

AvBlockRooms ==
    /\ av_op.op # Absent
    /\ \E c \in PosCounts : AvCall("block_rooms", c, block_rooms(av, c, now))
    /\ UNCHANGED <<now, tz, res, res_op, wl, wl_op, reservations, availabilities, svc_op, waitlists, calls>>

AvUnblockRooms ==
    /\ av_op.op # Absent
    /\ \E c \in PosCounts : AvCall("unblock_rooms", c, unblock_rooms(av, c, now))
    /\ UNCHANGED <<now, tz, res, res_op, wl, wl_op, reservations, availabilities, svc_op, waitlists, calls>>

TickAvail ==
    /\ av_op.op # Absent
    /\ now < MaxAvailClock
    /\ now' = now + 1
    /\ UNCHANGED <<tz, av, av_op, res, res_op, wl, wl_op, reservations, availabilities, svc_op, waitlists, calls>>

NextAvail ==
    \/ AvReserveRooms
    \/ AvReleaseRooms
    \/ AvBlockRooms
    \/ AvUnblockRooms
    \/ TickAvail

AvailSpec == InitAvail /\ [][NextAvail]_vars

----------------------------------------------------------------------------
(* Availability with counts of either sign: the four mutators are called   *)
(* on the ledger directly, with any int *)

AvReserveRoomsInt ==
    /\ av_op.op # Absent
    /\ \E c \in IntCounts : AvCall("reserve_rooms", c, reserve_rooms(av, c, now))
    /\ UNCHANGED <<now, tz, res, res_op, wl, wl_op, reservations, availabilities, svc_op, waitlists, calls>>

AvReleaseRoomsInt ==
    /\ av_op.op # Absent
    /\ \E c \in IntCounts : AvCall("release_rooms", c, release_rooms(av, c, now))
    /\ UNCHANGED <<now, tz, res, res_op, wl, wl_op, reservations, availabilities, svc_op, waitlists, calls>>

AvBlockRoomsInt ==
    /\ av_op.op # Absent
    /\ \E c \in IntCounts : AvCall("block_rooms", c, block_rooms(av, c, now))
    /\ UNCHANGED <<now, tz, res, res_op, wl, wl_op, reservations, availabilities, svc_op, waitlists, calls>>

AvUnblockRoomsInt ==
    /\ av_op.op # Absent
    /\ \E c \in IntCounts : AvCall("unblock_rooms", c, unblock_rooms(av, c, now))
    /\ UNCHANGED <<now, tz, res, res_op, wl, wl_op, reservations, availabilities, svc_op, waitlists, calls>>

NextAvailInt ==
    \/ AvReserveRoomsInt
    \/ AvReleaseRoomsInt
    \/ AvBlockRoomsInt
    \/ AvUnblockRoomsInt

AvailIntSpec == InitAvail /\ [][NextAvailInt]_vars

----------------------------------------------------------------------------
(* Reservation: one reservation made by Reservation.create, then any       *)
(* sequence of its operations while the clock advances *)

InitRes ==
    /\ now = 0
    /\ tz = 0
    /\ \E dr \in DateRangesAt(0, 0) :
          /\ CreateError(dr, GuestCount(1, 0), Money(100, "IDR")) = NoError
          /\ res = Create("DELUXE_001", dr, GuestCount(1, 0), Money(100, "IDR"),
                          CancellationPolicy("Standard", 80, 24), 0)
    /\ res_op = [op |-> "create", err |-> NoError, ret |-> None, changes |-> 0]
    /\ NoAv
    /\ NoWl
    /\ NoSvc

ResConfirm ==
    /\ res_op.op # Absent
    /\ \E paid \in BOOLEAN : ResCall("confirm", confirm(res, paid, now))
    /\ UNCHANGED <<now, tz, av, av_op, wl, wl_op, reservations, availabilities, svc_op, waitlists, calls>>

ResCheckIn ==
    /\ res_op.op # Absent
    /\ ResCall("check_in", check_in(res, "101", now))
    /\ UNCHANGED <<now, tz, av, av_op, wl, wl_op, reservations, availabilities, svc_op, waitlists, calls>>

ResCheckOut ==
    /\ res_op.op # Absent
    /\ ResCall("check_out", check_out(res, now))
    /\ UNCHANGED <<now, tz, av, av_op, wl, wl_op, reservations, availabilities, svc_op, waitlists, calls>>

ResCancel ==
    /\ res_op.op # Absent
    /\ ResCall("cancel", cancel(res, "Requested by guest", now, tz))
    /\ UNCHANGED <<now, tz, av, av_op, wl, wl_op, reservations, availabilities, svc_op, waitlists, calls>>

ResMarkNoShow ==
    /\ res_op.op # Absent
    /\ ResCall("mark_no_show", mark_no_show(res, now))
    /\ UNCHANGED <<now, tz, av, av_op, wl, wl_op, reservations, availabilities, svc_op, waitlists, calls>>

ResModify ==
    /\ res_op.op # Absent
    /\ \E a \in ModifyArgs(now, tz) :
          ResCall("modify", modify(res, a[1], a[2], a[3], a[4], now, tz))
    /\ UNCHANGED <<now, tz, av, av_op, wl, wl_op, reservations, availabilities, svc_op, waitlists, calls>>

ResAddSpecialRequest ==
    /\ res_op.op # Absent
    /\ Len(res.special_requests) < MaxRequests
    /\ \E ty \in RequestTypeChoices :
          ResCall("add_special_request", add_special_request(res, ty, "extra pillows", now))
    /\ UNCHANGED <<now, tz, av, av_op, wl, wl_op, reservations, availabilities, svc_op, waitlists, calls>>

(* fulfill on the first request of the reservation: the request is         *)
(* changed in place, the reservation's version and modified_at are not     *)
(* touched *)
ResFulfillRequest ==
    /\ res_op.op # Absent
    /\ \E k \in DOMAIN res.special_requests \cap {1} :
          /\ res' = [res EXCEPT !.special_requests[k] = fulfill(@, "done")]
          /\ res_op' = [op |-> "fulfill", err |-> NoError, ret |-> None,
                        changes |-> res_op.changes]
    /\ UNCHANGED <<now, tz, av, av_op, wl, wl_op, reservations, availabilities, svc_op, waitlists, calls>>

TickRes ==
    /\ res_op.op # Absent
    /\ \E t \in DayInstants :
          /\ t > now
          /\ \A u \in DayInstants : u > now => t <= u
          /\ now' = t
    /\ UNCHANGED <<tz, av, av_op, res, res_op, wl, wl_op, reservations, availabilities, svc_op, waitlists, calls>>

NextRes ==
    \/ ResConfirm
    \/ ResCheckIn
    \/ ResCheckOut
    \/ ResCancel
    \/ ResMarkNoShow
    \/ ResModify
    \/ ResAddSpecialRequest
    \/ ResFulfillRequest
    \/ TickRes

ResSpec == InitRes /\ [][NextRes]_vars

----------------------------------------------------------------------------
(* Refund: a reservation under each policy and each UTC offset, confirmed  *)
(* or not, cancelled at any sampled hour *)

InitRefund ==
    /\ now = 0
    /\ tz \in TzChoices
    /\ \E dr \in DateRangesAt(0, tz), policy \in PolicyChoices, ta \in RefundMoneyChoices :
          /\ PolicyError(policy.refund_percentage, policy.deadline_hours) = NoError
          /\ CreateError(dr, GuestCount(1, 0), ta) = NoError
          /\ res = Create("DELUXE_001", dr, GuestCount(1, 0), ta, policy, 0)
    /\ res_op = [op |-> "create", err |-> NoError, ret |-> None, changes |-> 0]
    /\ NoAv
    /\ NoWl
    /\ NoSvc

TickHour ==
    /\ res_op.op # Absent
    /\ \E t \in HourInstants :
          /\ t > now
          /\ \A u \in HourInstants : u > now => t <= u
          /\ now' = t
    /\ UNCHANGED <<tz, av, av_op, res, res_op, wl, wl_op, reservations, availabilities, svc_op, waitlists, calls>>

NextRefund ==
    \/ ResConfirm
    \/ ResCancel
    \/ TickHour

RefundSpec == InitRefund /\ [][NextRefund]_vars

----------------------------------------------------------------------------
(* Check-in: a reservation on a host at each UTC offset, confirmed, moved  *)
(* to other dates, checked in and out at any sampled hour *)

InitCheckIn ==
    /\ now = 0
    /\ tz \in CheckInTzChoices
    /\ \E dr \in DateRangesAt(0, tz) :
          /\ CreateError(dr, GuestCount(1, 0), Money(100, "IDR")) = NoError
          /\ res = Create("DELUXE_001", dr, GuestCount(1, 0), Money(100, "IDR"),
                          CancellationPolicy("Standard", 80, 24), 0)
    /\ res_op = [op |-> "create", err |-> NoError, ret |-> None, changes |-> 0]
    /\ NoAv
    /\ NoWl
    /\ NoSvc

ResModifyDates ==
    /\ res_op.op # Absent
    /\ \E dr \in DateRangesAt(now, tz) :
          ResCall("modify", modify(res, Some(dr), None, None, None, now, tz))
    /\ UNCHANGED <<now, tz, av, av_op, wl, wl_op, reservations, availabilities, svc_op, waitlists, calls>>

NextCheckIn ==
    \/ ResConfirm
    \/ ResModifyDates
    \/ ResCheckIn
    \/ ResCheckOut
    \/ TickHour

CheckInSpec == InitCheckIn /\ [][NextCheckIn]_vars

----------------------------------------------------------------------------
(* Waitlist: one entry made by add_to_waitlist, then any sequence of its   *)
(* operations while the clock advances *)

InitWait ==
    /\ now = 0
    /\ tz = 0
    /\ \E p \in Priority :
          wl = add_to_waitlist("guest-1", "DELUXE_001", DateRange(1, 2), GuestCount(1, 0), p, 0)
    /\ wl_op = [op |-> "add_to_waitlist", arg |-> "", err |-> NoError]
    /\ NoAv
    /\ NoRes
    /\ NoSvc

WlConvert ==
    /\ wl_op.op # Absent
    /\ \E id \in ReservationIds :
          WlCall("convert_to_reservation", id, convert_to_reservation(wl, id))
    /\ UNCHANGED <<now, tz, av, av_op, res, res_op, reservations, availabilities, svc_op, waitlists, calls>>

WlExpire ==
    /\ wl_op.op # Absent
    /\ WlCall("expire", "", expire(wl))
    /\ UNCHANGED <<now, tz, av, av_op, res, res_op, reservations, availabilities, svc_op, waitlists, calls>>

WlExtendExpiry ==
    /\ wl_op.op # Absent
    /\ \E d \in ExtendChoices :
          /\ extend_expiry(wl, d).agg.expires_at
                <= wl.created_at + Days(ExpiryDays + MaxExtraDays)
          /\ WlCall("extend_expiry", d, extend_expiry(wl, d))
    /\ UNCHANGED <<now, tz, av, av_op, res, res_op, reservations, availabilities, svc_op, waitlists, calls>>

WlUpgradePriority ==
    /\ wl_op.op # Absent
    /\ \E p \in Priority : WlCall("upgrade_priority", p, upgrade_priority(wl, p))
    /\ UNCHANGED <<now, tz, av, av_op, res, res_op, reservations, availabilities, svc_op, waitlists, calls>>

WlMarkNotified ==
    /\ wl_op.op # Absent
    /\ WlCall("mark_notified", "", mark_notified(wl, now))
    /\ UNCHANGED <<now, tz, av, av_op, res, res_op, reservations, availabilities, svc_op, waitlists, calls>>

TickWait ==
    /\ wl_op.op # Absent
    /\ \E t \in WaitInstants :
          /\ t > now
          /\ \A u \in WaitInstants : u > now => t <= u
          /\ now' = t
    /\ UNCHANGED <<tz, av, av_op, res, res_op, wl, wl_op, reservations, availabilities, svc_op, waitlists, calls>>

NextWait ==
    \/ WlConvert
    \/ WlExpire
    \/ WlExtendExpiry
    \/ WlUpgradePriority
    \/ WlMarkNotified
    \/ TickWait

WaitSpec == InitWait /\ [][NextWait]_vars

(* The waitlist entry when extend_expiry is given any integer: the       *)
(* operations of WaitSpec, with additional_days of either sign *)

WlExtendExpiryInt ==
    /\ wl_op.op # Absent
    /\ \E d \in IntExtendChoices :
          /\ extend_expiry(wl, d).agg.expires_at
                <= wl.created_at + Days(ExpiryDays + MaxExtraDays)
          /\ extend_expiry(wl, d).agg.expires_at
                >= wl.created_at - Days(ExpiryDays + MaxExtraDays)
          /\ WlCall("extend_expiry", d, extend_expiry(wl, d))
    /\ UNCHANGED <<now, tz, av, av_op, res, res_op, reservations, availabilities, svc_op, waitlists, calls>>

NextWaitInt ==
    \/ WlConvert
    \/ WlExpire
    \/ WlExtendExpiryInt
    \/ TickWait

WaitIntSpec == InitWait /\ [][NextWaitInt]_vars

----------------------------------------------------------------------------
(* ReservationService over an InMemoryReservationRepository: any sequence  *)
(* of create_reservation calls and look-ups while the clock advances *)

ServiceStarted == [op |-> "start", args |-> << >>, err |-> NoError, ret |-> None]

InitResService ==
    /\ now = 0
    /\ tz = 0
    /\ reservations = << >>
    /\ availabilities = << >>
    /\ waitlists = << >>
    /\ calls = << >>
    /\ svc_op = ServiceStarted
    /\ NoAv
    /\ NoRes
    /\ NoWl

SvcCreateReservation ==
    /\ svc_op.op # Absent
    /\ \E ci \in ServiceCheckIns, co \in ServiceCheckOuts, adults \in ServiceAdults,
          code \in CodeChoices :
          LET r == create_reservation(reservations, "DELUXE_001", ci, co, adults, 0,
                                      "ONLINE", << >>, code, now, tz)
          IN  /\ Len(r.store) <= MaxReservations
              /\ reservations' = r.store
              /\ svc_op' = [op |-> "create_reservation", args |-> <<ci, co, adults, 0>>,
                            err |-> r.err, ret |-> r.ret]
    /\ UNCHANGED <<now, tz, av, av_op, res, res_op, wl, wl_op, availabilities, waitlists, calls>>

(* create_reservation given special requests, as the first reservation of  *)
(* the storage: a stay of one night from tomorrow *)
SvcCreateWithRequests ==
    /\ svc_op.op # Absent
    /\ reservations = << >>
    /\ \E reqs \in ServiceSpecialRequests :
          LET r == create_reservation(reservations, "DELUXE_001", UtcDate(now) + 1,
                                      UtcDate(now) + 2, 2, 0, "ONLINE", reqs, "AAAAAAAA",
                                      now, tz)
          IN  /\ reservations' = r.store
              /\ svc_op' = [op |-> "create_reservation",
                            args |-> <<UtcDate(now) + 1, UtcDate(now) + 2, 2, 0>>,
                            err |-> r.err, ret |-> r.ret]
    /\ UNCHANGED <<now, tz, av, av_op, res, res_op, wl, wl_op, availabilities, waitlists, calls>>

SvcGetByConfirmationCode ==
    /\ svc_op.op # Absent
    /\ \E code \in CodeChoices :
          svc_op' = [op |-> "get_reservation_by_confirmation_code", args |-> <<code>>,
                     err |-> NoError,
                     ret |-> find_by_confirmation_code(reservations, code)]
    /\ UNCHANGED <<now, tz, av, av_op, res, res_op, wl, wl_op, reservations, availabilities, waitlists, calls>>

TickResService ==
    /\ svc_op.op # Absent
    /\ \E t \in DayInstants :
          /\ t > now
          /\ \A u \in DayInstants : u > now => t <= u
          /\ now' = t
    /\ UNCHANGED <<tz, av, av_op, res, res_op, wl, wl_op, reservations, availabilities, svc_op, waitlists, calls>>

(* the repository's delete, called on the repository itself *)
RepoDeleteReservation ==
    /\ svc_op.op # Absent
    /\ \E id \in 1..MaxReservations :
          LET r == reservation_delete(reservations, id)
          IN  /\ reservations' = r.store
              /\ svc_op' = [op |-> "reservation_repo.delete", args |-> <<id>>,
                            err |-> r.err, ret |-> r.ret]
    /\ UNCHANGED <<now, tz, av, av_op, res, res_op, wl, wl_op, availabilities, waitlists, calls>>

NextResService ==
    \/ SvcCreateReservation
    \/ SvcCreateWithRequests
    \/ SvcGetByConfirmationCode
    \/ RepoDeleteReservation
    \/ TickResService

ResServiceSpec == InitResService /\ [][NextResService]_vars

(* ReservationService editing stored reservations: create_reservation,   *)
(* modify_reservation and add_special_request in any order within one     *)
(* day *)

RECURSIVE StoreEdits(_)
StoreEdits(store) ==
    IF store = << >> THEN 0
    ELSE (Head(store).version - 1) + Len(Head(store).special_requests)
            + StoreEdits(Tail(store))

SvcCreateStay ==
    /\ svc_op.op # Absent
    /\ \E ci \in ServiceCheckIns :
          LET r == create_reservation(reservations, "DELUXE_001", ci, ci + 1, 2, 0,
                                      "ONLINE", << >>, "AAAAAAAA", now, tz)
          IN  /\ Len(r.store) <= MaxReservations
              /\ reservations' = r.store
              /\ svc_op' = [op |-> "create_reservation", args |-> <<ci, ci + 1, 2, 0>>,
                            err |-> r.err, ret |-> r.ret]
    /\ UNCHANGED <<now, tz, av, av_op, res, res_op, wl, wl_op, availabilities, waitlists, calls>>

SvcModifyReservation ==
    /\ svc_op.op # Absent
    /\ \E id \in 1..MaxReservations, q \in ModifyRequests :
          LET r == modify_reservation(reservations, id, q[1], q[2], q[3],
                                      IF q[3] = None THEN None ELSE Some(0),
                                      None, now, tz)
          IN  /\ StoreEdits(r.store) <= MaxEdits
              /\ reservations' = r.store
              /\ svc_op' = [op |-> "modify_reservation", args |-> <<id, q[1], q[2], q[3]>>,
                            err |-> r.err, ret |-> r.ret]
    /\ UNCHANGED <<now, tz, av, av_op, res, res_op, wl, wl_op, availabilities, waitlists, calls>>

SvcAddSpecialRequest ==
    /\ svc_op.op # Absent
    /\ \E id \in 1..MaxReservations, ty \in ServiceRequestTypes :
          LET r == service_add_special_request(reservations, id, ty, "extra pillows", now)
          IN  /\ StoreEdits(r.store) <= MaxEdits
              /\ reservations' = r.store
              /\ svc_op' = [op |-> "add_special_request", args |-> <<id, ty>>,
                            err |-> r.err, ret |-> r.ret]
    /\ UNCHANGED <<now, tz, av, av_op, res, res_op, wl, wl_op, availabilities, waitlists, calls>>

(* fulfill on a request of a stored reservation, which the repository     *)
(* hands out itself: the stored request changes; no service calls it *)
StoredFulfillRequest ==
    /\ svc_op.op # Absent
    /\ \E id \in DOMAIN reservations :
          \E k \in DOMAIN reservations[id].special_requests :
              /\ reservations' = [reservations EXCEPT
                                     ![id].special_requests[k] = fulfill(@, "done")]
              /\ svc_op' = [op |-> "fulfill", args |-> <<id, k>>, err |-> NoError,
                            ret |-> None]
    /\ UNCHANGED <<now, tz, av, av_op, res, res_op, wl, wl_op, availabilities, waitlists, calls>>

NextResEdit ==
    \/ SvcCreateStay
    \/ SvcModifyReservation
    \/ SvcAddSpecialRequest
    \/ StoredFulfillRequest

ResEditSpec == InitResService /\ [][NextResEdit]_vars

(* WaitlistService over an InMemoryWaitlistRepository, in two parts.      *)
(* WaitServiceSpec: entries for one room type, notified, expired and       *)
(* converted in any order, and the listings of the active entries and of   *)
(* the entries to notify, while the clock advances past the expiry of the  *)
(* first entries.  WaitRankSpec: entries of two room types and two         *)
(* priorities, extended by a day, and the ranked listing of a room type.   *)

InitWaitService ==
    /\ now = 0
    /\ tz = 0
    /\ reservations = << >>
    /\ availabilities = << >>
    /\ waitlists = << >>
    /\ calls = << >>
    /\ svc_op = ServiceStarted
    /\ NoAv
    /\ NoRes
    /\ NoWl

SvcAddToWaitlist ==
    /\ svc_op.op # Absent
    /\ Len(waitlists) < MaxEntries
    /\ \E room \in RoomChoices, p \in WaitServicePriorities :
          LET r == service_add_to_waitlist(waitlists, "guest-1", room, DateRange(400, 401),
                                           GuestCount(1, 0), p, now)
          IN  /\ waitlists' = r.store
              /\ svc_op' = [op |-> "add_to_waitlist", args |-> <<room, p>>,
                            err |-> r.err, ret |-> r.ret]
    /\ UNCHANGED <<now, tz, av, av_op, res, res_op, wl, wl_op, reservations, availabilities, calls>>

SvcAddToWaitlistLow ==
    /\ svc_op.op # Absent
    /\ Len(waitlists) < MaxEntries
    /\ LET r == service_add_to_waitlist(waitlists, "guest-1", "DELUXE_001", DateRange(400, 401),
                                        GuestCount(1, 0), LOW, now)
       IN  /\ waitlists' = r.store
           /\ svc_op' = [op |-> "add_to_waitlist", args |-> <<"DELUXE_001", LOW>>,
                         err |-> r.err, ret |-> r.ret]
    /\ UNCHANGED <<now, tz, av, av_op, res, res_op, wl, wl_op, reservations, availabilities, calls>>

SvcWaitlistCall(name, waitlist_id, arg) ==
    LET r == WaitlistCall(name, waitlists, waitlist_id, arg, now)
    IN  /\ svc_op.op # Absent
        /\ waitlists' = r.store
        /\ svc_op' = [op |-> name, args |-> <<waitlist_id, arg>>, err |-> r.err, ret |-> r.ret]
        /\ UNCHANGED <<now, tz, av, av_op, res, res_op, wl, wl_op, reservations,
                       availabilities, calls>>

SvcMarkNotified == \E id \in 1..MaxEntries : SvcWaitlistCall("mark_notified", id, "")

SvcExpireEntry == \E id \in 1..MaxEntries : SvcWaitlistCall("expire_entry", id, "")

SvcConvertToReservation ==
    \E id \in 1..MaxEntries : SvcWaitlistCall("convert_to_reservation", id, "res-1")

SvcGetRoomWaitlist ==
    /\ svc_op.op # Absent
    /\ \E room \in RoomChoices :
          svc_op' = [op |-> "get_room_waitlist", args |-> <<room>>, err |-> NoError,
                     ret |-> Some(get_room_waitlist(waitlists, room, now))]
    /\ UNCHANGED <<now, tz, av, av_op, res, res_op, wl, wl_op, reservations, availabilities,
                   waitlists, calls>>

SvcGetActiveWaitlist ==
    /\ svc_op.op # Absent
    /\ svc_op' = [op |-> "get_active_waitlist", args |-> << >>, err |-> NoError,
                  ret |-> Some(get_active_waitlist(waitlists))]
    /\ UNCHANGED <<now, tz, av, av_op, res, res_op, wl, wl_op, reservations, availabilities,
                   waitlists, calls>>

SvcGetEntriesToNotify ==
    /\ svc_op.op # Absent
    /\ svc_op' = [op |-> "get_entries_to_notify", args |-> << >>, err |-> NoError,
                  ret |-> Some(get_entries_to_notify(waitlists, now))]
    /\ UNCHANGED <<now, tz, av, av_op, res, res_op, wl, wl_op, reservations, availabilities,
                   waitlists, calls>>

TickWaitService ==
    /\ svc_op.op # Absent
    /\ \E t \in WaitServiceInstants :
          /\ t > now
          /\ \A u \in WaitServiceInstants : u > now => t <= u
          /\ now' = t
    /\ UNCHANGED <<tz, av, av_op, res, res_op, wl, wl_op, reservations, availabilities,
                   waitlists, calls, svc_op, calls>>

(* an entry is extended by one day, once *)
SvcExtendExpiry ==
    \E id \in 1..MaxEntries :
        /\ id \in DOMAIN waitlists =>
              waitlists[id].expires_at = waitlists[id].created_at + Days(ExpiryDays)
        /\ SvcWaitlistCall("extend_expiry", id, 1)

(* an entry's priority is raised; a priority that is not higher leaves it *)
UpgradePriorities == {LOW, HIGH}

SvcUpgradePriority ==
    \E id \in 1..MaxEntries, new_priority \in UpgradePriorities :
        SvcWaitlistCall("upgrade_priority", id, new_priority)

NextWaitService ==
    \/ SvcAddToWaitlistLow
    \/ SvcMarkNotified
    \/ SvcExpireEntry
    \/ SvcConvertToReservation
    \/ SvcGetActiveWaitlist
    \/ SvcGetEntriesToNotify
    \/ TickWaitService

WaitServiceSpec == InitWaitService /\ [][NextWaitService]_vars

NextWaitRank ==
    \/ SvcAddToWaitlist
    \/ SvcExtendExpiry
    \/ SvcUpgradePriority
    \/ SvcGetRoomWaitlist
    \/ TickWaitService

WaitRankSpec == InitWaitService /\ [][NextWaitRank]_vars

(* The GET endpoints under /api/waitlist, asked for each kind of path    *)
(* while entries are added and expired *)

ApiGetWaitlist ==
    /\ svc_op.op # Absent
    /\ \E path \in WaitlistPaths :
          svc_op' = [op |-> "GET /api/waitlist", args |-> <<path>>, err |-> NoError,
                     ret |-> Some(get_waitlist(waitlists, path, now))]
    /\ UNCHANGED <<now, tz, av, av_op, res, res_op, wl, wl_op, reservations, availabilities,
                   waitlists, calls>>

(* the repository's delete, called on the repository itself *)
RepoDeleteWaitlistEntry ==
    /\ svc_op.op # Absent
    /\ \E id \in 1..MaxEntries :
          LET r == waitlist_delete(waitlists, id)
          IN  /\ waitlists' = r.store
              /\ svc_op' = [op |-> "waitlist_repo.delete", args |-> <<id>>,
                            err |-> r.err, ret |-> r.ret]
    /\ UNCHANGED <<now, tz, av, av_op, res, res_op, wl, wl_op, reservations, availabilities,
                   calls>>

NextWaitApi ==
    \/ SvcAddToWaitlistLow
    \/ SvcExpireEntry
    \/ RepoDeleteWaitlistEntry
    \/ ApiGetWaitlist
    \/ TickWaitService

WaitApiSpec == InitWaitService /\ [][NextWaitApi]_vars

----------------------------------------------------------------------------
(* AvailabilityService over an InMemoryAvailabilityRepository: ledgers     *)
(* created for the days of one room type, in any order and more than once, *)
(* and the four range operations *)

InitAvailService ==
    /\ now = 0
    /\ tz = 0
    /\ reservations = << >>
    /\ availabilities = << >>
    /\ waitlists = << >>
    /\ calls = << >>
    /\ svc_op = ServiceStarted
    /\ NoAv
    /\ NoRes
    /\ NoWl

SvcCreateAvailability ==
    /\ svc_op.op # Absent
    /\ \E day \in ServiceDays, total \in ServiceTotals :
          LET r == create_availability(availabilities, "DELUXE_001", day, total, 0, now)
          IN  /\ availabilities' = r.store
              /\ svc_op' = [op |-> "create_availability", args |-> <<"DELUXE_001", day, total, 0>>,
                            err |-> r.err, ret |-> r.ret]
    /\ UNCHANGED <<now, tz, av, av_op, res, res_op, wl, wl_op, reservations, waitlists, calls>>

RECURSIVE LedgerChanges(_)

(* the successful mutations the stored ledgers have counted *)
LedgerChanges(store) ==
    IF store = << >> THEN 0 ELSE Head(store).version - 1 + LedgerChanges(Tail(store))

SvcRangeCall(name, r, args) ==
    /\ svc_op.op # Absent
    /\ LedgerChanges(r.store) <= MaxLedgerChanges
    /\ availabilities' = r.store
    /\ svc_op' = [op |-> name, args |-> args, err |-> r.err, ret |-> r.ret]
    /\ UNCHANGED <<now, tz, av, av_op, res, res_op, wl, wl_op, reservations, waitlists, calls>>

SvcReserveRooms ==
    \E s \in ServiceDays, e \in ServiceDays, c \in ServiceCounts :
        SvcRangeCall("reserve_rooms",
                     service_reserve_rooms(availabilities, "DELUXE_001", s, e, c, now),
                     <<"DELUXE_001", s, e, c>>)

SvcReleaseRooms ==
    \E s \in ServiceDays, e \in ServiceDays, c \in ServiceCounts :
        SvcRangeCall("release_rooms",
                     service_release_rooms(availabilities, "DELUXE_001", s, e, c, now),
                     <<"DELUXE_001", s, e, c>>)

SvcBlockRooms ==
    \E s \in ServiceDays, e \in ServiceDays, c \in ServiceCounts :
        SvcRangeCall("block_rooms",
                     service_block_rooms(availabilities, "DELUXE_001", s, e, c, now),
                     <<"DELUXE_001", s, e, c>>)

SvcUnblockRooms ==
    \E s \in ServiceDays, e \in ServiceDays, c \in ServiceCounts :
        SvcRangeCall("unblock_rooms",
                     service_unblock_rooms(availabilities, "DELUXE_001", s, e, c, now),
                     <<"DELUXE_001", s, e, c>>)

(* the repository's delete, called on the repository itself *)
RepoDeleteAvailability ==
    /\ svc_op.op # Absent
    /\ \E day \in ServiceDays :
          LET r == availability_delete(availabilities, "DELUXE_001", day)
          IN  /\ availabilities' = r.store
              /\ svc_op' = [op |-> "availability_repo.delete", args |-> <<"DELUXE_001", day>>,
                            err |-> r.err, ret |-> r.ret]
    /\ UNCHANGED <<now, tz, av, av_op, res, res_op, wl, wl_op, reservations, waitlists, calls>>

NextAvailService ==
    \/ SvcCreateAvailability
    \/ RepoDeleteAvailability
    \/ SvcReserveRooms
    \/ SvcReleaseRooms
    \/ SvcBlockRooms
    \/ SvcUnblockRooms

AvailServiceSpec == InitAvailService /\ [][NextAvailService]_vars

(* AvailabilityService asked whether a range of days can take a number   *)
(* of rooms, over ledgers created for some of the days and partly reserved *)

SvcCheckAvailability ==
    /\ svc_op.op # Absent
    /\ \E s \in ServiceDays, e \in ServiceDays, c \in ServiceCounts :
          svc_op' = [op |-> "check_availability", args |-> <<"DELUXE_001", s, e, c>>,
                     err |-> NoError,
                     ret |-> Some(service_check_availability(availabilities, "DELUXE_001",
                                                             s, e, c))]
    /\ UNCHANGED <<now, tz, av, av_op, res, res_op, wl, wl_op, reservations, availabilities,
                   waitlists, calls>>

NextAvailCheck ==
    \/ SvcCreateAvailability
    \/ SvcReserveRooms
    \/ SvcCheckAvailability

AvailCheckSpec == InitAvailService /\ [][NextAvailCheck]_vars

----------------------------------------------------------------------------
(* The three services side by side: one stay taken through its life by   *)
(* ReservationService, next to a ledger that AvailabilityService creates   *)
(* and reserves rooms on, and to entries that WaitlistService adds *)

SvcStayCall(name, args) ==
    LET r == reservation_service(name, Repositories(reservations, availabilities, waitlists),
                                 args, now, tz)
    IN  /\ svc_op.op # Absent
        /\ \A i \in DOMAIN r.repos.reservations :
              /\ r.repos.reservations[i].version <= MaxVersion + 1
              /\ Len(r.repos.reservations[i].special_requests) <= MaxRequests
        /\ reservations' = r.repos.reservations
        /\ availabilities' = r.repos.availabilities
        /\ waitlists' = r.repos.waitlists
        /\ svc_op' = [op |-> name, args |-> args, err |-> r.err, ret |-> r.ret]
        /\ UNCHANGED <<now, tz, av, av_op, res, res_op, wl, wl_op, calls>>

StayCreateReservation ==
    /\ reservations = << >>
    /\ \E ci \in ServiceCheckIns :
          SvcStayCall("create_reservation",
                      <<"DELUXE_001", ci, ci + 1, 2, 0, "ONLINE", << >>, "AAAAAAAA">>)

StayModifyReservation ==
    \E q \in ModifyRequests :
        SvcStayCall("modify_reservation",
                    <<1, q[1], q[2], q[3], IF q[3] = None THEN None ELSE Some(0), None>>)

StayAddSpecialRequest ==
    SvcStayCall("add_special_request", <<1, "OTHER", "extra pillows">>)

StayConfirmReservation ==
    \E paid \in BOOLEAN : SvcStayCall("confirm_reservation", <<1, paid>>)

StayCheckInGuest == SvcStayCall("check_in_guest", <<1, "101">>)

StayCheckOutGuest == SvcStayCall("check_out_guest", <<1, "">>)

StayCancelReservation == SvcStayCall("cancel_reservation", <<1, "Requested by guest">>)

StayMarkNoShow == SvcStayCall("mark_no_show", <<1, "">>)

StayCreateAvailability ==
    /\ svc_op.op # Absent
    /\ availabilities = << >>
    /\ \E total \in ServiceTotals :
          LET r == create_availability(availabilities, "DELUXE_001", 0, total, 0, now)
          IN  /\ availabilities' = r.store
              /\ svc_op' = [op |-> "create_availability", args |-> <<"DELUXE_001", 0, total, 0>>,
                            err |-> r.err, ret |-> r.ret]
    /\ UNCHANGED <<now, tz, av, av_op, res, res_op, wl, wl_op, reservations, waitlists, calls>>

StayReserveRooms ==
    \E c \in ServiceCounts :
        SvcRangeCall("reserve_rooms",
                     service_reserve_rooms(availabilities, "DELUXE_001", 0, 1, c, now),
                     <<"DELUXE_001", 0, 1, c>>)

NextStay ==
    \/ StayCreateReservation
    \/ StayModifyReservation
    \/ StayAddSpecialRequest
    \/ StayConfirmReservation
    \/ StayCheckInGuest
    \/ StayCheckOutGuest
    \/ StayCancelReservation
    \/ StayMarkNoShow
    \/ StayCreateAvailability
    \/ StayReserveRooms
    \/ SvcAddToWaitlistLow

StaySpec == InitWaitService /\ [][NextStay]_vars

----------------------------------------------------------------------------
(* Calls of AvailabilityService.reserve_rooms running together on one     *)
(* event loop: ledgers without blocked rooms are created for the two days, *)
(* then up to three calls are started and resumed in any order, each from  *)
(* one await to its next *)

(* the range and count each call may be started with; every range shares   *)
(* a day with every other *)
CallRequests ==
    << {<<0, 1, 1>>, <<0, 0, 2>>, <<0, 1, 3>>},
       {<<0, 1, 1>>, <<1, 1, 2>>, <<0, 0, 1>>},
       {<<0, 1, 1>>, <<0, 1, 2>>} >>

CallOverbooks == {0, 1}

CallCreateAvailability ==
    /\ calls = << >>
    /\ \E day \in ServiceDays, total \in ServiceTotals, over \in CallOverbooks :
          LET r == create_availability(availabilities, "DELUXE_001", day, total, over, now)
          IN  /\ \A i \in DOMAIN availabilities : availabilities[i].availability_date # day
              /\ availabilities' = r.store
              /\ svc_op' = [op |-> "create_availability",
                            args |-> <<"DELUXE_001", day, total, over>>,
                            err |-> r.err, ret |-> r.ret]
    /\ UNCHANGED <<now, tz, av, av_op, res, res_op, wl, wl_op, reservations, waitlists, calls>>

CallStart ==
    /\ availabilities # << >>
    /\ Len(calls) < Len(CallRequests)
    /\ \E q \in CallRequests[Len(calls) + 1] :
          calls' = Append(calls, NewCall("DELUXE_001", q[1], q[2], q[3]))
    /\ UNCHANGED <<now, tz, av, av_op, res, res_op, wl, wl_op, reservations, availabilities,
                   waitlists, svc_op>>

CallResume(c) ==
    LET r == reserve_rooms_step(availabilities, calls[c], now)
    IN  /\ availabilities' = r.store
        /\ calls' = [calls EXCEPT ![c] = r.call]
        /\ UNCHANGED <<now, tz, av, av_op, res, res_op, wl, wl_op, reservations, waitlists,
                       svc_op>>

CallFind == \E c \in DOMAIN calls : calls[c].pc = "find" /\ CallResume(c)

CallReserve == \E c \in DOMAIN calls : calls[c].pc = "reserve" /\ CallResume(c)

CallUpdate == \E c \in DOMAIN calls : calls[c].pc = "update" /\ CallResume(c)

NextCalls ==
    \/ CallCreateAvailability
    \/ CallStart
    \/ CallFind
    \/ CallReserve
    \/ CallUpdate

CallsSpec == InitAvailService /\ [][NextCalls]_vars

----------------------------------------------------------------------------
(* The reservation endpoints of the HTTP application: requests with each   *)
(* kind of token, in any order, while the clock advances *)

InitApi ==
    /\ now = 0
    /\ tz = 0
    /\ reservations = << >>
    /\ availabilities = << >>
    /\ waitlists = << >>
    /\ calls = << >>
    /\ svc_op = ServiceStarted
    /\ NoAv
    /\ NoRes
    /\ NoWl

ApiPostReservations ==
    /\ svc_op.op # Absent
    /\ \E token \in TokenChoices, ci \in ServiceCheckIns, co \in ServiceCheckOuts,
          code \in CodeChoices :
          LET r == post_reservations(reservations, token, "DELUXE_001", ci, co, 2, 0,
                                     "ONLINE", << >>, code, now, tz)
          IN  /\ Len(r.store) <= MaxReservations
              /\ reservations' = r.store
              /\ svc_op' = [op |-> "POST /api/reservations", args |-> <<token, ci, co>>,
                            err |-> r.detail, ret |-> Some(r.status)]
    /\ UNCHANGED <<now, tz, av, av_op, res, res_op, wl, wl_op, availabilities, waitlists, calls>>

(* POST /api/reservations with a valid token and each kind of body, as the *)
(* first request the application serves: a stay of one night from tomorrow *)
ApiPostBody ==
    /\ svc_op.op # Absent
    /\ reservations = << >>
    /\ \E adults \in ApiAdults, source \in ApiBookingSources, reqs \in ApiSpecialRequests :
          LET r == post_reservations(reservations, TokenOfAdmin, "DELUXE_001",
                                     UtcDate(now) + 1, UtcDate(now) + 2, adults, 0,
                                     source, reqs, "AAAAAAAA", now, tz)
          IN  /\ reservations' = r.store
              /\ svc_op' = [op |-> "POST /api/reservations",
                            args |-> <<TokenOfAdmin, UtcDate(now) + 1, UtcDate(now) + 2>>,
                            err |-> r.detail, ret |-> Some(r.status)]
    /\ UNCHANGED <<now, tz, av, av_op, res, res_op, wl, wl_op, availabilities, waitlists, calls>>

ApiGetReservations ==
    /\ svc_op.op # Absent
    /\ \E token \in TokenChoices :
          LET r == get_reservations(reservations, token)
          IN  svc_op' = [op |-> "GET /api/reservations", args |-> <<token>>,
                         err |-> NoError, ret |-> Some(r.status)]
    /\ UNCHANGED <<now, tz, av, av_op, res, res_op, wl, wl_op, reservations, availabilities, waitlists, calls>>

NextApi ==
    \/ ApiPostReservations
    \/ ApiPostBody
    \/ ApiGetReservations
    \/ TickResService

ApiSpec == InitApi /\ [][NextApi]_vars

----------------------------------------------------------------------------
(* All three aggregates: one of them is constructed and operated on *)

Init == InitAvail \/ InitRes \/ InitWait

Next == NextAvail \/ NextRes \/ NextWait

Spec == Init /\ [][Next]_vars


----------------------------------------------------------------------------
(* Properties of the aggregates *)

(* C1: starting from reserved_rooms = 0 and blocked_rooms = 0, after every *)
(* sequence of reserve/release/block/unblock calls with counts >= 1,       *)
(* reserved_rooms + blocked_rooms <= total_rooms + overbooking_threshold.  *)
(* block_rooms compares blocked_rooms + count with total_rooms alone, so   *)
(* blocking a room of a fully reserved ledger breaks it.                   *)
C1_CapacityInvariant ==
    av.reserved_rooms + av.blocked_rooms <= av.total_rooms + av.overbooking_threshold

StatusEdges ==
    {<<PENDING, CONFIRMED>>, <<CONFIRMED, CHECKED_IN>>, <<CHECKED_IN, CHECKED_OUT>>,
     <<PENDING, CANCELLED>>, <<CONFIRMED, CANCELLED>>,
     <<PENDING, NO_SHOW>>, <<CONFIRMED, NO_SHOW>>}

(* C2: a reservation is created PENDING, and every step of every operation *)
(* sequence leaves status unchanged or follows one of the seven edges; so  *)
(* CHECKED_OUT, CANCELLED and NO_SHOW are never left.                      *)
C2_StatusEdges ==
    /\ [](res_op.op = "create" => res.status = PENDING)
    /\ [][res'.status = res.status \/ <<res.status, res'.status>> \in StatusEdges]_vars
    /\ [][res.status \in {CHECKED_OUT, CANCELLED, NO_SHOW} => res'.status = res.status]_vars

(* a stay that went through the whole lifecycle, and a later call on it *)
C2_Witness ==
    /\ res.status = CHECKED_OUT
    /\ res_op.op = "mark_no_show"
    /\ res_op.err = MsgNoShow

(* C3: status becomes CHECKED_IN only in a step from CONFIRMED, and        *)
(* check_in on a PENDING reservation fails with InvalidTransition.         *)
C3_CheckInViaConfirmed ==
    /\ [][(res'.status = CHECKED_IN /\ res.status # CHECKED_IN) => res.status = CONFIRMED]_vars
    /\ []((res_op.op = "check_in" /\ res.status = PENDING)
            => ResErrorKind(res_op.err) = "InvalidTransition")

(* check_in was refused on a PENDING reservation whose check-in date has come *)
C3_Witness ==
    /\ res_op.op = "check_in"
    /\ res.status = PENDING
    /\ res_op.err = MsgCheckIn
    /\ UtcDate(now) >= res.date_range.check_in

(* C4: whenever a mutating method of Availability, Reservation or          *)
(* WaitlistEntry raises, every field of the aggregate keeps its value.     *)
C4_FailureLeavesAggregate ==
    [][/\ av_op'.err # NoError => av' = av
       /\ res_op'.err # NoError => res' = res
       /\ wl_op'.err # NoError => wl' = wl]_vars

(* an unblock was refused on a ledger that had been changed before *)
C4_Witness ==
    /\ av_op.op = "unblock_rooms"
    /\ av_op.err = MsgUnblock
    /\ av.version > 1
    /\ av.last_updated < now

(* C5: in every reachable state 1 <= nights <= 30, adults >= 1 and        *)
(* total_amount.amount > 0; a modify that would break one is rejected.     *)
(* The validators run at construction only: modify assigns a 31-night      *)
(* DateRange or a Money of amount 0 without complaint.                     *)
C5_ReservationInvariants ==
    /\ nights(res.date_range) >= MinNights
    /\ nights(res.date_range) <= MaxNights
    /\ res.guest_count.adults >= MinAdults
    /\ res.total_amount.amount > 0

(* C6: reserve_rooms(count), count >= 1, succeeds iff reserved + blocked +  *)
(* count <= total + overbooking_threshold; then reserved_rooms grows by    *)
(* count and blocked_rooms and total_rooms stay; otherwise it fails with   *)
(* CapacityExceeded.                                                       *)
C6_ReserveAdmission ==
    [][(now' = now /\ av_op'.op = "reserve_rooms") =>
          LET c == av_op'.count
          IN  IF av.reserved_rooms + av.blocked_rooms + c
                    <= av.total_rooms + av.overbooking_threshold
              THEN /\ av_op'.err = NoError
                   /\ av'.reserved_rooms = av.reserved_rooms + c
                   /\ av'.blocked_rooms = av.blocked_rooms
                   /\ av'.total_rooms = av.total_rooms
              ELSE /\ AvErrorKind(av_op'.err) = "CapacityExceeded"
                   /\ av' = av]_vars

(* total 10, overbooking 2: 11 rooms were reserved (available_rooms = -1)  *)
(* and a reserve of 2 more was then refused *)
C6_Witness ==
    /\ av.total_rooms = ExampleTotal
    /\ av.overbooking_threshold = ExampleOverbook
    /\ av.reserved_rooms = ExampleCount
    /\ available_rooms(av) = -1
    /\ av_op = [op |-> "reserve_rooms", count |-> 2, err |-> MsgInsufficient]

(* C7: after a successful reserve_rooms(count), release_rooms(count)       *)
(* succeeds and restores reserved_rooms and available_rooms.               *)
C7_ReserveReleaseRoundTrip ==
    [][(now' = now /\ av_op'.op = "reserve_rooms" /\ av_op'.err = NoError) =>
          LET r == release_rooms(av', av_op'.count, now')
          IN  /\ r.err = NoError
              /\ r.agg.reserved_rooms = av.reserved_rooms
              /\ available_rooms(r.agg) = available_rooms(av)]_vars

(* two successful calls on a fresh ledger, the second a release: it gave   *)
(* back what the first one reserved *)
C7_Witness ==
    /\ av_op.op = "release_rooms"
    /\ av_op.err = NoError
    /\ av.version = 3
    /\ av.reserved_rooms = 0
    /\ av.blocked_rooms = 0

(* the refund a policy grants in full *)
FullRefund(r) ==
    Money(Percent(r.total_amount.amount, r.cancellation_policy.refund_percentage),
          r.total_amount.currency)

(* the hours from the local instant t to the start of the check-in date *)
HoursToCheckIn(r, t, offset) == r.date_range.check_in * HoursPerDay - (t + offset)

(* a cancel that succeeded is the last call; modified_at is its instant *)
Cancelled == res_op.op = "cancel" /\ res_op.err = NoError

(* C8 as stated: cancel returns the full policy refund when the time from  *)
(* the moment of cancellation to check-in is at least deadline_hours and   *)
(* zero when it is less, so one hour past the deadline yields zero.        *)
C8_RefundByHours ==
    Cancelled =>
        res_op.ret = Some(IF HoursToCheckIn(res, res.modified_at, tz)
                                >= res.cancellation_policy.deadline_hours
                          THEN FullRefund(res)
                          ELSE Money(Decimal(0, 0), res.total_amount.currency))

(* C8 amended: cancel returns the full policy refund when 24 times the     *)
(* whole days from the local date of cancellation to the check-in date is  *)
(* at least deadline_hours, and zero otherwise.                            *)
C8_RefundByDays ==
    Cancelled =>
        res_op.ret = Some(IF (res.date_range.check_in - LocalDate(res.modified_at, tz))
                                * HoursPerDay >= res.cancellation_policy.deadline_hours
                          THEN FullRefund(res)
                          ELSE Money(Decimal(0, 0), res.total_amount.currency))

(* cancelled one hour after the deadline, on the same calendar day, and    *)
(* refunded in full *)
C8_Witness ==
    /\ Cancelled
    /\ res.cancellation_policy.deadline_hours = HoursPerDay
    /\ HoursToCheckIn(res, res.modified_at, tz) = res.cancellation_policy.deadline_hours - 1
    /\ res_op.ret = Some(FullRefund(res))
    /\ res_op.ret[1].amount.hundredths > 0

(* C9: converted_reservation_id is set iff status is CONVERTED.            *)
C9_ConvertedIffId ==
    (wl.converted_reservation_id # None) <=> (wl.status = CONVERTED)

(* a converted entry on which expire was called afterwards *)
C9_Witness ==
    /\ wl.status = CONVERTED
    /\ wl.converted_reservation_id # None
    /\ wl_op.op = "expire"

(* C10: upgrade_priority(p) changes priority only when p ranks strictly    *)
(* higher; with an equal or lower p it raises nothing and changes nothing; *)
(* so priority never decreases.                                            *)
C10_PriorityNeverDecreases ==
    /\ [][wl'.priority >= wl.priority]_vars
    /\ [][(now' = now /\ wl_op'.op = "upgrade_priority") =>
            /\ wl_op'.err = NoError
            /\ IF wl_op'.arg > wl.priority
               THEN wl' = [wl EXCEPT !.priority = wl_op'.arg]
               ELSE wl' = wl]_vars

(* an upgrade to a lower priority was asked of a HIGH entry *)
C10_Witness ==
    /\ wl_op.op = "upgrade_priority"
    /\ wl_op.arg = LOW
    /\ wl.priority = HIGH

(* C11: with priority and expires_at fixed, calculate_priority_score never *)
(* decreases as time advances, before and after expires_at: over every     *)
(* pair of sampled instants, and over every step that leaves priority and  *)
(* expires_at alone.                                                       *)
C11_ScoreMonotoneInTime ==
    /\ [](wl_op.op # Absent =>
            \A t1, t2 \in WaitInstants :
                t1 <= t2 => calculate_priority_score(wl, t1) <= calculate_priority_score(wl, t2))
    /\ [][(wl'.priority = wl.priority /\ wl'.expires_at = wl.expires_at) =>
            calculate_priority_score(wl', now') >= calculate_priority_score(wl, now)]_vars

(* an entry read after its expires_at, where the score has kept growing *)
C11_Witness ==
    /\ wl_op.op # Absent
    /\ now > wl.expires_at
    /\ DaysBetween(wl.expires_at, now) < 0
    /\ calculate_priority_score(wl, now) > calculate_priority_score(wl, wl.expires_at)

(* C12: at one instant, the score after upgrade_priority(p) is at least    *)
(* the score before it, for every entry state and every priority p.        *)
C12_UpgradeNeverLowersScore ==
    /\ [](wl_op.op # Absent =>
            \A p \in Priority :
                calculate_priority_score(upgrade_priority(wl, p).agg, now)
                    >= calculate_priority_score(wl, now))
    /\ [][(now' = now /\ wl_op'.op = "upgrade_priority") =>
            calculate_priority_score(wl', now') >= calculate_priority_score(wl, now)]_vars

(* an upgrade to URGENT that raised the score above that of a LOW entry *)
C12_Witness ==
    /\ wl_op.op = "upgrade_priority"
    /\ wl_op.arg = URGENT
    /\ wl.priority = URGENT
    /\ now > 0
    /\ calculate_priority_score(wl, now)
          > calculate_priority_score([wl EXCEPT !.priority = LOW], now)

(* C14: status becomes CONFIRMED only by confirm(payment_confirmed = TRUE) *)
(* on a PENDING reservation; confirm on any other status fails with        *)
(* InvalidTransition, and confirm(FALSE) on PENDING fails with             *)
(* PaymentRequired and leaves the reservation PENDING.                     *)
C14_ConfirmedOnlyByPaidConfirm ==
    /\ [](res_op.op = "create" => res.status # CONFIRMED)
    /\ [][(res.status # CONFIRMED /\ res'.status = CONFIRMED) =>
            /\ res.status = PENDING
            /\ now' = now
            /\ res_op'.op = "confirm"
            /\ res_op'.err = NoError
            /\ res' = confirm(res, TRUE, now).agg]_vars
    /\ [](res_op.op # Absent /\ res.status # PENDING =>
            \A paid \in BOOLEAN :
                /\ ResErrorKind(confirm(res, paid, now).err) = "InvalidTransition"
                /\ confirm(res, paid, now).agg = res)
    /\ [](res_op.op # Absent /\ res.status = PENDING =>
            /\ ResErrorKind(confirm(res, FALSE, now).err) = "PaymentRequired"
            /\ confirm(res, FALSE, now).agg = res)
    /\ [][(now' = now /\ res_op'.op = "confirm" /\ res_op'.err # NoError) =>
            /\ res' = res
            /\ ResErrorKind(res_op'.err)
                  = IF res.status = PENDING THEN "PaymentRequired" ELSE "InvalidTransition"]_vars

(* a confirmed reservation on which a second confirm was refused *)
C14_Witness ==
    /\ res.status = CONFIRMED
    /\ res_op.op = "confirm"
    /\ ResErrorKind(res_op.err) = "InvalidTransition"

(* C15: check_in succeeds only on a CONFIRMED reservation read on or after *)
(* its check-in date, the date being datetime.utcnow().date(); before that *)
(* date it fails with TooEarly and the reservation stays CONFIRMED; so no  *)
(* reservation is CHECKED_IN while the date is before its check-in date.   *)
C15_CheckInNotBeforeDate ==
    /\ [](res.status = CHECKED_IN => UtcDate(now) >= res.date_range.check_in)
    /\ [][(now' = now /\ res_op'.op = "check_in" /\ res_op'.err = NoError) =>
            /\ res.status = CONFIRMED
            /\ UtcDate(now) >= res.date_range.check_in
            /\ res'.status = CHECKED_IN]_vars
    /\ [][(now' = now /\ res_op'.op = "check_in" /\ res.status = CONFIRMED
                /\ UtcDate(now) < res.date_range.check_in) =>
            /\ ResErrorKind(res_op'.err) = "TooEarly"
            /\ res' = res]_vars

(* a check-in refused one hour before the check-in date began *)
C15_Witness ==
    /\ res.status = CONFIRMED
    /\ res_op.op = "check_in"
    /\ ResErrorKind(res_op.err) = "TooEarly"
    /\ UtcDate(now) + 1 = res.date_range.check_in
    /\ UtcDate(now + 1) = res.date_range.check_in

(* C16: every successful modify, confirm, check_in, check_out, cancel and  *)
(* mark_no_show adds exactly 1 to version and sets modified_at to the time *)
(* of the call; add_special_request sets modified_at and leaves version;   *)
(* a failed call and the passing of time leave both; so version is 1 plus  *)
(* the number of successful state-changing calls.                          *)
C16_VersionCountsChanges ==
    /\ [](res_op.op = "create" => res.version = 1)
    /\ [](res_op.op # Absent => res.version = 1 + res_op.changes)
    /\ [][(now' = now /\ res_op'.op \in StateChangingOps /\ res_op'.err = NoError) =>
            /\ res'.version = res.version + 1
            /\ res'.modified_at = now]_vars
    /\ [][(now' = now /\ res_op'.op = "add_special_request" /\ res_op'.err = NoError) =>
            /\ res'.version = res.version
            /\ res'.modified_at = now
            /\ Len(res'.special_requests) = Len(res.special_requests) + 1]_vars
    /\ [][(now' # now \/ res_op'.err # NoError) =>
            /\ res'.version = res.version
            /\ res'.modified_at = res.modified_at]_vars

(* two state changes made on earlier days, then a special request added    *)
(* today: version 3, modified today *)
C16_Witness ==
    /\ res_op.op = "add_special_request"
    /\ res_op.changes = 2
    /\ res.version = 3
    /\ Len(res.special_requests) = 1
    /\ res.modified_at = now
    /\ now > res.created_at

AvMutators == {"reserve_rooms", "release_rooms", "block_rooms", "unblock_rooms"}

(* C17: every successful reserve_rooms, release_rooms, block_rooms and     *)
(* unblock_rooms adds exactly 1 to the ledger's version; a failed call     *)
(* leaves it; no step ever lowers it.                                      *)
C17_VersionMonotonic ==
    /\ [][av'.version >= av.version]_vars
    /\ [][(now' = now /\ av_op'.op \in AvMutators /\ av_op'.err = NoError) =>
            av'.version = av.version + 1]_vars
    /\ [][(now' # now \/ av_op'.err # NoError) => av'.version = av.version]_vars

(* a ledger on which each of the counters was raised once, and a release   *)
(* of more than is reserved was then refused *)
C17_Witness ==
    /\ av.version = 3
    /\ av.reserved_rooms = 1
    /\ av.blocked_rooms = 1
    /\ av_op.op = "release_rooms"
    /\ av_op.err = MsgRelease

(* C22: whatever integers the four mutators are called with, reserved_rooms *)
(* and blocked_rooms stay >= 0: release_rooms fails with InvalidRelease    *)
(* when count > reserved_rooms, unblock_rooms fails with InvalidUnblock    *)
(* when count > blocked_rooms, and no call takes a counter below zero.     *)
(* The mutators compare the count with the counter but never with zero: a  *)
(* negative count passes the guards of reserve_rooms and block_rooms.      *)
C22_CountersNonNegative ==
    /\ [](av.reserved_rooms >= 0 /\ av.blocked_rooms >= 0)
    /\ [][(av_op'.op = "release_rooms" /\ av_op'.count > av.reserved_rooms) =>
            AvErrorKind(av_op'.err) = "InvalidRelease"]_vars
    /\ [][(av_op'.op = "unblock_rooms" /\ av_op'.count > av.blocked_rooms) =>
            AvErrorKind(av_op'.err) = "InvalidUnblock"]_vars

(* C23: with count >= 1, block_rooms succeeds exactly when blocked_rooms + *)
(* count <= total_rooms, whatever overbooking_threshold is, and fails with *)
(* CapacityExceeded otherwise; so blocked_rooms <= total_rooms always; a   *)
(* successful block adds count to blocked_rooms, counts a version, sets    *)
(* last_updated and changes nothing else.                                  *)
C23_BlockWithinTotal ==
    /\ [](av_op.op # Absent => av.blocked_rooms <= av.total_rooms)
    /\ [](av_op.op # Absent =>
            \A c \in PosCounts :
                /\ block_rooms(av, c, now).err = NoError
                      <=> av.blocked_rooms + c <= av.total_rooms
                /\ block_rooms(av, c, now).err # NoError =>
                      AvErrorKind(block_rooms(av, c, now).err) = "CapacityExceeded")
    /\ [][(now' = now /\ av_op'.op = "block_rooms") =>
            IF av.blocked_rooms + av_op'.count <= av.total_rooms
            THEN /\ av_op'.err = NoError
                 /\ av' = [av EXCEPT !.blocked_rooms = av.blocked_rooms + av_op'.count,
                                     !.version = av.version + 1,
                                     !.last_updated = now]
            ELSE /\ AvErrorKind(av_op'.err) = "CapacityExceeded"
                 /\ av' = av]_vars

(* every room of a ledger with an overbooking allowance is blocked, and    *)
(* one more block was refused although the allowance is unused *)
C23_Witness ==
    /\ av_op.op = "block_rooms"
    /\ av_op.err = MsgBlock
    /\ av.overbooking_threshold > 0
    /\ av.total_rooms > 0
    /\ av.blocked_rooms = av.total_rooms
    /\ av.reserved_rooms = 0
    /\ av.blocked_rooms + av_op.count <= av.total_rooms + av.overbooking_threshold

(* C24: modify succeeds exactly when the status is PENDING or CONFIRMED    *)
(* and check_in is at least one day after the current date, and fails with *)
(* NotModifiable, changing nothing, otherwise; on success each of          *)
(* date_range, guest_count, room_type_id and total_amount takes the value  *)
(* supplied for it, or keeps its value when none is supplied, and status   *)
(* and the remaining fields (but modified_at and version) keep theirs.     *)
ModifiedAs(r, a, t) ==
    [r EXCEPT !.date_range = IF a[1] # None THEN a[1][1] ELSE @,
              !.guest_count = IF a[2] # None THEN a[2][1] ELSE @,
              !.room_type_id = IF a[3] # None THEN a[3][1] ELSE @,
              !.total_amount = IF a[4] # None THEN a[4][1] ELSE @,
              !.modified_at = t,
              !.version = @ + 1]

C24_ModifyReplacesSupplied ==
    res_op.op # Absent =>
        \A a \in ModifyArgs(now, tz) :
            IF /\ res.status \in {PENDING, CONFIRMED}
               /\ res.date_range.check_in >= LocalDate(now, tz) + 1
            THEN /\ modify(res, a[1], a[2], a[3], a[4], now, tz).err = NoError
                 /\ modify(res, a[1], a[2], a[3], a[4], now, tz).agg = ModifiedAs(res, a, now)
            ELSE /\ ResErrorKind(modify(res, a[1], a[2], a[3], a[4], now, tz).err)
                        = "NotModifiable"
                 /\ modify(res, a[1], a[2], a[3], a[4], now, tz).agg = res

(* C27: a waitlist entry starts ACTIVE; its status changes only from      *)
(* ACTIVE to CONVERTED, by convert_to_reservation, and from ACTIVE to      *)
(* EXPIRED, by expire; no operation changes the status of a CONVERTED, an  *)
(* EXPIRED or a (externally) CANCELLED entry; expire on an entry that is   *)
(* not ACTIVE changes nothing and raises nothing.                          *)
C27_StatusEdges ==
    /\ [](wl_op.op = "add_to_waitlist" => wl.status = ACTIVE)
    /\ [][wl'.status # wl.status =>
            /\ wl.status = ACTIVE
            /\ \/ wl'.status = CONVERTED /\ wl_op'.op = "convert_to_reservation"
               \/ wl'.status = EXPIRED /\ wl_op'.op = "expire"]_vars
    /\ [](wl_op.op # Absent =>
            \A w \in {wl, [wl EXCEPT !.status = WL_CANCELLED]} :
                w.status # ACTIVE =>
                    /\ expire(w) = [agg |-> w, err |-> NoError]
                    /\ \A id \in ReservationIds :
                          convert_to_reservation(w, id).agg.status = w.status
                    /\ \A d \in ExtendChoices : extend_expiry(w, d).agg.status = w.status
                    /\ \A p \in Priority : upgrade_priority(w, p).agg.status = w.status
                    /\ mark_notified(w, now).agg.status = w.status)
    /\ [][(now' = now /\ wl_op'.op = "expire" /\ wl.status # ACTIVE) =>
            wl' = wl /\ wl_op'.err = NoError]_vars

(* expire was called on an entry converted before its expiry date passed;  *)
(* it is still CONVERTED *)
C27_Witness ==
    /\ wl_op.op = "expire"
    /\ wl_op.err = NoError
    /\ wl.status = CONVERTED
    /\ now > wl.expires_at

(* C28: convert_to_reservation succeeds on an ACTIVE entry, making it      *)
(* CONVERTED with the given reservation id, and fails with InvalidState,   *)
(* changing nothing, on any other; converted_reservation_id, once set,     *)
(* never changes, so an entry is converted at most once.                   *)
C28_ConvertOnce ==
    /\ [][(now' = now /\ wl_op'.op = "convert_to_reservation") =>
            IF wl.status = ACTIVE
            THEN /\ wl_op'.err = NoError
                 /\ wl' = [wl EXCEPT !.status = CONVERTED,
                                     !.converted_reservation_id = Some(wl_op'.arg)]
            ELSE /\ WlErrorKind(wl_op'.err) = "InvalidState"
                 /\ wl' = wl]_vars
    /\ [][wl.converted_reservation_id # None =>
            wl'.converted_reservation_id = wl.converted_reservation_id]_vars
    /\ [](wl_op.op # Absent /\ wl.status = EXPIRED =>
            \A id \in ReservationIds :
                /\ WlErrorKind(convert_to_reservation(wl, id).err) = "InvalidState"
                /\ convert_to_reservation(wl, id).agg = wl)

(* a second convert, to another reservation, was refused *)
C28_Witness ==
    /\ wl_op.op = "convert_to_reservation"
    /\ wl_op.err = MsgConvert
    /\ wl.status = CONVERTED
    /\ wl.converted_reservation_id # Some(wl_op.arg)

(* C29: an entry is created with expires_at = created_at + 14 days;      *)
(* expires_at > created_at in every state, whatever integer extend_expiry  *)
(* is given; extend_expiry adds exactly the given days to the expires_at   *)
(* of an ACTIVE entry and leaves any other entry unchanged.                *)
C29_ExpiresAfterCreated ==
    /\ [](wl_op.op = "add_to_waitlist" =>
            wl.expires_at = wl.created_at + ExpiryDays * HoursPerDay)
    /\ [](wl_op.op # Absent => wl.expires_at > wl.created_at)
    /\ [][(now' = now /\ wl_op'.op = "extend_expiry") =>
            /\ wl_op'.err = NoError
            /\ IF wl.status = ACTIVE
               THEN wl' = [wl EXCEPT !.expires_at =
                                        wl.expires_at + wl_op'.arg * HoursPerDay]
               ELSE wl' = wl]_vars

(* the whole days of a duration of h hours, counted towards zero and      *)
(* counted downwards *)
DayRange == (0 - 4 * ExpiryDays)..(4 * ExpiryDays)

DaysTowardZero(h) ==
    CHOOSE d \in DayRange :
        IF h >= 0 THEN d * HoursPerDay <= h /\ h < (d + 1) * HoursPerDay
        ELSE (d - 1) * HoursPerDay < h /\ h <= d * HoursPerDay

DaysDownward(h) ==
    CHOOSE d \in DayRange : d * HoursPerDay <= h /\ h < (d + 1) * HoursPerDay

(* C30 as stated: at every instant, also after expires_at, the score is    *)
(* priority x 100 + days_waiting x 2 + (14 - days_to_expiry) x 5 with      *)
(* now - created_at and expires_at - now truncated towards zero to whole   *)
(* days.                                                                   *)
C30_ScoreTowardZero ==
    wl_op.op # Absent =>
        calculate_priority_score(wl, now)
            = wl.priority * 100 + DaysTowardZero(now - wl.created_at) * 2
                + (14 - DaysTowardZero(wl.expires_at - now)) * 5

(* C30, amended: at every instant, also after expires_at, the score is     *)
(* priority x 100 + days_waiting x 2 + (14 - days_to_expiry) x 5 with      *)
(* now - created_at and expires_at - now rounded down to whole days, so    *)
(* that an entry expired for less than a day has days_to_expiry = -1.      *)
C30_ScoreRoundedDown ==
    wl_op.op # Absent =>
        calculate_priority_score(wl, now)
            = wl.priority * 100 + DaysDownward(now - wl.created_at) * 2
                + (14 - DaysDownward(wl.expires_at - now)) * 5

(* an instant less than a day after expires_at: the score counts -1 days   *)
(* to expiry *)
C30_Witness ==
    /\ wl_op.op # Absent
    /\ now > wl.expires_at
    /\ now - wl.expires_at < HoursPerDay
    /\ calculate_priority_score(wl, now)
          = wl.priority * 100 + ((now - wl.created_at) \div HoursPerDay) * 2 + (14 + 1) * 5

(* C37: extend_expiry(d) with d >= 1 lowers the score of an ACTIVE entry, *)
(* taken at the same instant, by exactly 5 x d, and leaves the score of    *)
(* an entry that is not ACTIVE as it was.                                  *)
C37_ExtendLowersScore ==
    [][(now' = now /\ wl_op'.op = "extend_expiry" /\ wl_op'.arg >= 1) =>
        IF wl.status = ACTIVE
        THEN calculate_priority_score(wl', now)
                = calculate_priority_score(wl, now) - 5 * wl_op'.arg
        ELSE calculate_priority_score(wl', now) = calculate_priority_score(wl, now)]_vars

(* an ACTIVE entry was extended by two days in the middle of a day *)
C37_Witness ==
    /\ wl_op.op = "extend_expiry"
    /\ wl_op.arg = 2
    /\ wl.status = ACTIVE
    /\ wl.expires_at = wl.created_at + Days(ExpiryDays + 2)
    /\ (now - wl.created_at) % HoursPerDay # 0
    /\ calculate_priority_score(wl, now) + 10
          = calculate_priority_score([wl EXCEPT !.expires_at = @ - Days(2)], now)

----------------------------------------------------------------------------
(* Properties of the services *)

(* C13: constructing a DateRange with check_out <= check_in fails with a   *)
(* validation error, whatever the date; every stored reservation's dates   *)
(* have check_out > check_in; create_reservation called with check_out <=  *)
(* check_in fails with a validation error and stores nothing.              *)
C13_InvertedDatesRejected ==
    /\ [](svc_op.op # Absent =>
            \A ci \in ServiceCheckIns \cup CheckInDays, co \in ServiceCheckOuts :
                co <= ci => ResErrorKind(DateRangeError(ci, co, now, tz)) = "ValidationError")
    /\ [](\A i \in DOMAIN reservations :
            reservations[i].date_range.check_out > reservations[i].date_range.check_in)
    /\ [][(now' = now /\ svc_op'.op = "create_reservation"
                /\ svc_op'.args[2] <= svc_op'.args[1]) =>
            /\ ResErrorKind(svc_op'.err) = "ValidationError"
            /\ svc_op'.ret = None
            /\ reservations' = reservations]_vars

(* one reservation is stored, and a call with check-out the day before     *)
(* check-in was refused for its dates *)
C13_Witness ==
    /\ svc_op.op = "create_reservation"
    /\ svc_op.args[2] < svc_op.args[1]
    /\ svc_op.err = MsgCheckOut
    /\ Len(reservations) = 1

(* the position in `found` of the first ledger whose operation fails, or  *)
(* one past the last position when none does *)
FirstFailure(name, store, found, count, t) ==
    LET failing == {k \in 1..Len(found) :
                       EntityCall(name, store[found[k]], count, t).err # NoError}
    IN  IF failing = {} THEN Len(found) + 1
        ELSE CHOOSE k \in failing : \A j \in failing : k <= j

(* what a range operation leaves when the ledgers at positions `found` are *)
(* processed in that order and nothing is undone: the ledgers before the   *)
(* n-th hold what the operation wrote and differ from what they were, the  *)
(* others are untouched, and the outcome is the n-th ledger's error *)
NoRollbackOutcome(name, before, after, found, count, t, err, ret) ==
    LET n == FirstFailure(name, before, found, count, t)
        done == {found[k] : k \in 1..(n - 1)}
    IN  /\ after = [i \in DOMAIN before |->
                       IF i \in done THEN EntityCall(name, before[i], count, t).agg
                       ELSE before[i]]
        /\ \A i \in done : after[i] # before[i]
        /\ err = IF n > Len(found) THEN NoError
                 ELSE EntityCall(name, before[found[n]], count, t).err
        /\ ret = IF n <= Len(found) THEN None
                 ELSE IF found = << >> THEN Some(FALSE) ELSE Some(TRUE)

(* C18: a range operation of AvailabilityService applies the ledger's      *)
(* operation to the ledgers of the range one after the other, in storage   *)
(* order; when every one succeeds all are mutated; when the n-th fails the *)
(* call raises that error, the n-1 ledgers before it keep what the         *)
(* operation wrote, and the n-th and later ones are as they were.          *)
C18_NoRollback ==
    [][svc_op'.op \in AvMutators =>
        NoRollbackOutcome(svc_op'.op, availabilities, availabilities',
                          find_by_room_type(availabilities, svc_op'.args[1],
                                            svc_op'.args[2], svc_op'.args[3]),
                          svc_op'.args[4], now, svc_op'.err, svc_op'.ret)]_vars

(* a reservation over two days refused for want of rooms on the ledger     *)
(* processed second: the ledger processed first, stored first though its   *)
(* date is the later one, holds the rooms and would accept the count again *)
C18_Witness ==
    /\ svc_op.op = "reserve_rooms"
    /\ svc_op.err = MsgInsufficient
    /\ find_by_room_type(availabilities, svc_op.args[1], svc_op.args[2], svc_op.args[3])
          = <<1, 2>>
    /\ availabilities[1].availability_date > availabilities[2].availability_date
    /\ reserve_rooms(availabilities[1], svc_op.args[4], now).err = NoError
    /\ reserve_rooms(availabilities[2], svc_op.args[4], now).err = MsgInsufficient
    /\ availabilities[1].reserved_rooms = svc_op.args[4]
    /\ availabilities[1].version = 2

(* C19: no two stored reservations have the same confirmation_code.        *)
(* _generate_confirmation_code draws 8 random characters and nothing       *)
(* compares the result with the codes already stored.                      *)
C19_UniqueConfirmationCode ==
    \A i, j \in DOMAIN reservations :
        i # j => reservations[i].confirmation_code # reservations[j].confirmation_code

(* C20: once a ledger is stored for a (room_type_id, date) its             *)
(* reserved_rooms and blocked_rooms change only by reserve_rooms,          *)
(* release_rooms, block_rooms and unblock_rooms; create_availability for   *)
(* the same key leaves them.  The repository's save replaces the stored    *)
(* ledger by the new one, which has nothing reserved and nothing blocked.  *)
(* (The repository's delete, the administrative removal, is not a step     *)
(* the property speaks of.)                                                *)
C20_CreatedOnce ==
    [][\A i \in DOMAIN availabilities :
          svc_op'.op = "create_availability" =>
              /\ KeyOf(availabilities'[i]) = KeyOf(availabilities[i])
              /\ availabilities'[i].reserved_rooms = availabilities[i].reserved_rooms
              /\ availabilities'[i].blocked_rooms = availabilities[i].blocked_rooms]_vars

(* C25: modify_reservation on a modifiable reservation with a new         *)
(* check_out and no new check_in succeeds and leaves the stored            *)
(* reservation with the supplied check_out.                                *)
C25_ExtendStay ==
    [][(now' = now
            /\ svc_op'.op = "modify_reservation"
            /\ svc_op'.args[1] \in DOMAIN reservations
            /\ is_modifiable(reservations[svc_op'.args[1]], now, tz)
            /\ svc_op'.args[2] = None
            /\ svc_op'.args[3] # None) =>
        /\ svc_op'.err = NoError
        /\ reservations'[svc_op'.args[1]].date_range.check_out = svc_op'.args[3][1]]_vars

IsPrefix(s, t) == Len(s) <= Len(t) /\ SubSeq(t, 1, Len(s)) = s

(* the requests of a list as they were when they were added: fulfill       *)
(* changes fulfilled and notes of a request and nothing else of it *)
AsAdded(requests) ==
    [k \in DOMAIN requests |-> [requests[k] EXCEPT !.fulfilled = FALSE, !.notes = None]]

(* C26: add_special_request succeeds whatever the status and puts exactly  *)
(* one unfulfilled request after the requests already there, which it      *)
(* leaves as they are; the requests of a stored reservation at one moment  *)
(* are a prefix of its requests at any later moment, none being removed,   *)
(* inserted or moved (fulfill changes a request in place: the request      *)
(* keeps its position, type, description and time); and adding a request   *)
(* to one stored reservation leaves every other stored reservation as it   *)
(* was.                                                                    *)
C26_RequestsAppendOnly ==
    /\ [](\A i \in DOMAIN reservations, s \in ReservationStatus, ty \in RequestTypes :
            LET before == [reservations[i] EXCEPT !.status = s]
                after == add_special_request(before, ty, "late arrival", now)
            IN  /\ after.err = NoError
                /\ after.agg.status = s
                /\ Len(after.agg.special_requests) = Len(before.special_requests) + 1
                /\ IsPrefix(before.special_requests, after.agg.special_requests)
                /\ after.agg.special_requests[Len(before.special_requests) + 1]
                      = [request_type |-> ty, description |-> "late arrival",
                         fulfilled |-> FALSE, notes |-> None, created_at |-> now])
    /\ [][\A i \in DOMAIN reservations :
            /\ i \in DOMAIN reservations'
            /\ IsPrefix(AsAdded(reservations[i].special_requests),
                        AsAdded(reservations'[i].special_requests))
            /\ svc_op'.op # "fulfill" =>
                  IsPrefix(reservations[i].special_requests,
                           reservations'[i].special_requests)]_vars
    /\ [][(svc_op'.op = "add_special_request" /\ svc_op'.ret # None) =>
            /\ DOMAIN reservations' = DOMAIN reservations
            /\ \A i \in DOMAIN reservations :
                  IF i = svc_op'.args[1]
                  THEN /\ Len(reservations'[i].special_requests)
                            = Len(reservations[i].special_requests) + 1
                       /\ ~reservations'[i].special_requests[
                              Len(reservations'[i].special_requests)].fulfilled
                       /\ reservations'[i].special_requests[
                              Len(reservations'[i].special_requests)].request_type
                            = svc_op'.args[2]
                  ELSE reservations'[i] = reservations[i]]_vars

(* a second request was added to the first of two stored reservations,     *)
(* whose first request had been fulfilled; the other reservation has none *)
C26_Witness ==
    /\ svc_op.op = "add_special_request"
    /\ svc_op.err = NoError
    /\ svc_op.args[1] = 1
    /\ Len(reservations) = 2
    /\ Len(reservations[1].special_requests) = 2
    /\ reservations[1].special_requests[1].fulfilled
    /\ ~reservations[1].special_requests[2].fulfilled
    /\ reservations[2].special_requests = << >>

(* C33: check_availability(room, start, end, n) answers true only if     *)
(* every date from start to end has a stored ledger of the room that       *)
(* admits n rooms; a date without a ledger, or with one that cannot take   *)
(* n, makes the answer false.                                              *)
C33_WholeRangeChecked ==
    [][(svc_op'.op = "check_availability" /\ svc_op'.ret = Some(TRUE)) =>
        \A day \in svc_op'.args[2]..svc_op'.args[3] :
            \E i \in DOMAIN availabilities :
                /\ KeyOf(availabilities[i]) = <<svc_op'.args[1], day>>
                /\ check_availability(availabilities[i], svc_op'.args[4])]_vars

----------------------------------------------------------------------------
(* Properties of the HTTP layer *)

(* C21: POST /api/reservations and GET /api/reservations answer a request  *)
(* that carries no valid bearer token with 401, and such a request stores  *)
(* no reservation and is shown none; only a request with a valid token is  *)
(* served.  main.py gives neither endpoint the get_current_active_user     *)
(* dependency, so both serve every request.                                *)
C21_TokenRequired ==
    [][(now' = now
            /\ svc_op'.op \in {"POST /api/reservations", "GET /api/reservations"}
            /\ get_current_active_user(svc_op'.args[1]).status # 200) =>
        /\ svc_op'.ret = Some(401)
        /\ reservations' = reservations]_vars

(* C34: GET /api/waitlist/active is served by the listing of the active  *)
(* entries: the answer is 200 and shows exactly the stored entries whose   *)
(* status is ACTIVE.                                                       *)
C34_ActiveListingServed ==
    [][(now' = now /\ svc_op'.op = "GET /api/waitlist" /\ svc_op'.args[1] = <<"active">>) =>
        /\ RouteOf(WaitlistGetRoutes, <<"active">>) = Some("get_active_waitlist")
        /\ svc_op'.ret[1].status = 200
        /\ svc_op'.ret[1].body = find_active_entries(waitlists)]_vars

----------------------------------------------------------------------------
(* Properties of the waitlist service *)

Range(s) == {s[k] : k \in DOMAIN s}

NoRepeats(s) == \A j, k \in DOMAIN s : s[j] = s[k] => j = k

(* C31: should_notify_again is true for an entry never notified; for an    *)
(* entry notified at n it is false while less than 3 days have passed      *)
(* since n, so also right after mark_notified, and true from n + 3 days    *)
(* on; get_entries_to_notify returns exactly the stored entries that are   *)
(* ACTIVE and for which should_notify_again is true.                       *)
C31_NotifyAgain ==
    /\ [](\A i \in DOMAIN waitlists :
            IF waitlists[i].notified_at = None
            THEN should_notify_again(waitlists[i], now)
            ELSE should_notify_again(waitlists[i], now)
                    <=> now >= waitlists[i].notified_at[1] + 3 * HoursPerDay)
    /\ [][(now' = now /\ svc_op'.op = "mark_notified" /\ svc_op'.ret # None) =>
            /\ waitlists'[svc_op'.args[1]].notified_at = Some(now)
            /\ ~should_notify_again(waitlists'[svc_op'.args[1]], now)]_vars
    /\ [][(now' = now /\ svc_op'.op = "get_entries_to_notify") =>
            /\ waitlists' = waitlists
            /\ NoRepeats(svc_op'.ret[1])
            /\ Range(svc_op'.ret[1])
                  = {i \in DOMAIN waitlists :
                        /\ waitlists[i].status = ACTIVE
                        /\ should_notify_again(waitlists[i], now)}]_vars

(* of two active entries, the one notified less than three days ago is     *)
(* left out and the one notified three days ago or more is listed *)
C31_Witness ==
    /\ svc_op.op = "get_entries_to_notify"
    /\ Len(waitlists) = 2
    /\ waitlists[1].status = ACTIVE
    /\ waitlists[2].status = ACTIVE
    /\ waitlists[1].notified_at # None
    /\ waitlists[2].notified_at # None
    /\ now - waitlists[1].notified_at[1] < 3 * HoursPerDay
    /\ now - waitlists[2].notified_at[1] >= 3 * HoursPerDay
    /\ svc_op.ret = Some(<<2>>)

(* C32: get_room_waitlist(room) returns each stored entry of the room once *)
(* and no other entry, in an order in which no entry has a lower score, at *)
(* the instant of the call, than the entry after it.                       *)
C32_RankedByScore ==
    [][(now' = now /\ svc_op'.op = "get_room_waitlist") =>
        /\ waitlists' = waitlists
        /\ NoRepeats(svc_op'.ret[1])
        /\ Range(svc_op'.ret[1])
              = {i \in DOMAIN waitlists : waitlists[i].room_type_id = svc_op'.args[1]}
        /\ \A k \in 1..(Len(svc_op'.ret[1]) - 1) :
              calculate_priority_score(waitlists[svc_op'.ret[1][k]], now)
                >= calculate_priority_score(waitlists[svc_op'.ret[1][k + 1]], now)]_vars

(* the entry stored second is listed first: it has the higher score *)
C32_Witness ==
    /\ svc_op.op = "get_room_waitlist"
    /\ svc_op.ret = Some(<<2, 1>>)
    /\ waitlists[1].room_type_id = waitlists[2].room_type_id
    /\ calculate_priority_score(waitlists[2], now) > calculate_priority_score(waitlists[1], now)

(* C36: of two entries never extended, both looked at between their own    *)
(* created_at and expires_at, the one with the strictly higher priority    *)
(* has the strictly higher score, however long either has waited.          *)
InFirstWindow(w, t) ==
    /\ w.expires_at = w.created_at + 14 * HoursPerDay
    /\ w.created_at <= t
    /\ t <= w.expires_at

C36_PriorityDominates ==
    \A i, j \in DOMAIN waitlists :
        (/\ InFirstWindow(waitlists[i], now)
         /\ InFirstWindow(waitlists[j], now)
         /\ waitlists[i].priority > waitlists[j].priority) =>
            calculate_priority_score(waitlists[i], now)
                > calculate_priority_score(waitlists[j], now)

(* a LOW entry at the last instant of its window, with the most the day    *)
(* counts can add, next to a MEDIUM entry just created *)
C36_Witness ==
    /\ Len(waitlists) = 2
    /\ InFirstWindow(waitlists[1], now)
    /\ InFirstWindow(waitlists[2], now)
    /\ waitlists[1].priority = LOW
    /\ waitlists[2].priority = MEDIUM
    /\ now = waitlists[1].expires_at
    /\ now = waitlists[2].created_at
    /\ calculate_priority_score(waitlists[1], now) = 198
    /\ calculate_priority_score(waitlists[2], now) = 200

(* C38: the clock alone changes no entry; an entry leaves ACTIVE for       *)
(* EXPIRED only in an expire_entry call on it; an ACTIVE entry whose       *)
(* expires_at has passed is listed by find_active_entries, is listed by    *)
(* get_entries_to_notify when it is due a notification, and is converted   *)
(* by convert_to_reservation.                                              *)
C38_ExpiryNeedsExpire ==
    /\ [][now' # now => waitlists' = waitlists]_vars
    /\ [][\A i \in DOMAIN waitlists :
            (waitlists[i].status = ACTIVE /\ waitlists'[i].status = EXPIRED) =>
                svc_op'.op = "expire_entry" /\ svc_op'.args[1] = i]_vars
    /\ [](\A i \in DOMAIN waitlists :
            (waitlists[i].status = ACTIVE /\ now > waitlists[i].expires_at) =>
                /\ i \in Range(find_active_entries(waitlists))
                /\ i \in Range(get_active_waitlist(waitlists))
                /\ should_notify_again(waitlists[i], now) =>
                      i \in Range(get_entries_to_notify(waitlists, now))
                /\ convert_to_reservation(waitlists[i], "res-1").err = NoError
                /\ WaitlistCall("convert_to_reservation", waitlists, i, "res-1", now).err
                      = NoError
                /\ WaitlistCall("convert_to_reservation", waitlists, i, "res-1", now)
                      .store[i].status = CONVERTED)
    /\ [][(now' = now /\ svc_op'.op = "convert_to_reservation"
            /\ svc_op'.args[1] \in DOMAIN waitlists
            /\ waitlists[svc_op'.args[1]].status = ACTIVE) =>
                /\ svc_op'.err = NoError
                /\ waitlists'[svc_op'.args[1]].status = CONVERTED]_vars

(* the listing of the entries to notify, taken after the first entry's     *)
(* expires_at and never expired, names the first entry and one created     *)
(* after that expiry *)
C38_Witness ==
    /\ svc_op.op = "get_entries_to_notify"
    /\ svc_op.ret = Some(<<1, 2>>)
    /\ waitlists[1].status = ACTIVE
    /\ waitlists[2].created_at > waitlists[1].expires_at
    /\ now > waitlists[1].expires_at

(* the public operations of ReservationService *)
ReservationServiceOps ==
    {"create_reservation", "modify_reservation", "add_special_request", "confirm_reservation",
     "check_in_guest", "check_out_guest", "cancel_reservation", "mark_no_show"}

(* C35: no ReservationService operation changes an Availability record or  *)
(* a WaitlistEntry: the stored ledgers, reserved_rooms of every date among *)
(* them, and the stored entries are the same before and after the call,    *)
(* so creating or cancelling a reservation reserves and releases no room.  *)
C35_OtherStoresKept ==
    [][svc_op'.op \in ReservationServiceOps
         => availabilities' = availabilities /\ waitlists' = waitlists]_vars

(* a stay of the night of day 0 was cancelled while the ledger of that     *)
(* night has rooms reserved and an entry waits for the room type *)
C35_Witness ==
    /\ svc_op.op = "cancel_reservation"
    /\ svc_op.err = NoError
    /\ reservations # << >>
    /\ reservations[1].status = CANCELLED
    /\ reservations[1].date_range.check_in = 0
    /\ \E i \in DOMAIN availabilities :
          /\ availabilities[i].room_type_id = reservations[1].room_type_id
          /\ availabilities[i].availability_date = 0
          /\ availabilities[i].reserved_rooms >= 1
    /\ \E i \in DOMAIN waitlists : waitlists[i].status = ACTIVE

RECURSIVE ReservedBy(_, _)

(* the rooms the calls reserved on the ledger at position p: the count of  *)
(* a call for each time its av.reserve_rooms returned on that ledger *)
ReservedBy(cs, p) ==
    IF cs = << >> THEN 0
    ELSE Head(cs).count * Cardinality({k \in DOMAIN Head(cs).reserved : Head(cs).reserved[k] = p})
         + ReservedBy(Tail(cs), p)

(* C39: however calls of reserve_rooms (count >= 1) over overlapping date  *)
(* ranges are interleaved at their awaits, on ledgers without blocked      *)
(* rooms, no increment is lost: reserved_rooms of each date is the sum of  *)
(* the counts that succeeded on it; and reserved_rooms of no date exceeds  *)
(* total_rooms + overbooking_threshold.                                    *)
C39_NoLostIncrement ==
    \A p \in DOMAIN availabilities :
        /\ availabilities[p].blocked_rooms = 0
        /\ availabilities[p].reserved_rooms = ReservedBy(calls, p)
        /\ availabilities[p].reserved_rooms
              <= availabilities[p].total_rooms + availabilities[p].overbooking_threshold

(* two calls are suspended at the update of the same ledger, each after    *)
(* its own increment, and a third was refused on a ledger the two filled *)
C39_Witness ==
    /\ Len(calls) = 3
    /\ calls[1].pc = "update"
    /\ calls[2].pc = "update"
    /\ calls[1].availabilities[calls[1].i] = calls[2].availabilities[calls[2].i]
    /\ availabilities[calls[1].availabilities[calls[1].i]].reserved_rooms
          = calls[1].count + calls[2].count
    /\ calls[3].pc = "raised"
    /\ calls[3].err = MsgInsufficient


=============================================================================
